---- MODULE Spec2Model ----
(***************************************************************************)
(* Infinite Wiki: the session (tab) store, the fetch effect that owns the  *)
(* one streaming generation of the active tab, the result cache and the    *)
(* history navigator of App (src/unnamed/part_000, the current App.tsx).   *)
(*                                                                         *)
(* Text is a sequence of tokens: '' is <<>>, s1 + s2 is s1 \o s2.  A       *)
(* nullable field is <<>> (null) or <<v>>; a nullable string is "" when    *)
(* null.  One action is one run of a handler or of one continuation of an  *)
(* async function (between two awaits) together with the render it causes  *)
(* and the effects that render re-runs: React applies the state updates of *)
(* one such run in one batch, and the effect of a render caused by a user  *)
(* event is flushed before the next event is handled.                      *)
(***************************************************************************)
EXTENDS Integers, Sequences, FiniteSets, TLC

VARIABLES
    tabs,             \* useState<Tab[]>: the session store, a sequence of Tab records
    activeTabId,      \* useState<string>: the active-session selector
    cache,            \* useState<Map<string, CachedTopicState>>: cacheKey -> entry
    searchHistory,    \* useState<string[]>
    finalContentRef,  \* useRef<string>, shared by every run of fetchData
    finalSourcesRef,  \* useRef<any[]>, shared by every run of fetchData
    gens,             \* the suspended runs of fetchData / fetchTranslation
    uploads,          \* the suspended runs of handleFileUpload
    pendingDiagramsRef, \* useRef<Set<string>>: prompts being generated
    diagrams          \* the calls of generateInfoDiagram not yet settled

vars == <<tabs, activeTabId, cache, searchHistory, finalContentRef, finalSourcesRef, gens, uploads,
          pendingDiagramsRef, diagrams>>

(***************************************************************************)
(* Bounds of the model.                                                    *)
(***************************************************************************)
MaxTabs == 2      \* tabs open together
MaxGens == 2      \* suspended generations (superseded ones included)
MaxEvents == 1    \* stream events delivered to one generation
MaxStack == 2     \* entries of a history or future stack
MaxSection == 1   \* remote section index
MaxUploads == 1   \* suspended uploads
MaxDiagrams == 2  \* image-generation calls not yet settled
MaxMarkers == 2   \* marker-carrying chunks delivered to one generation

(***************************************************************************)
(* Strings of the model and the string functions the code applies to them. *)
(***************************************************************************)
YouTubeTopic == "https://youtu.be/abc123"
WebTopic == "https://example.com/book"
DefaultTopic == "Hypertext"
BinaryTopic == "Analyze Document"
BaseLanguage == "English"

\* String.prototype.trim on the strings of the model.
Trim(s) ==
    CASE s = " Gravity " -> "Gravity"
      [] s = "  " -> ""
      [] OTHER -> s

\* String.prototype.toLowerCase on the strings of the model.
ToLower(s) ==
    CASE s = "Hypertext" -> "hypertext"
      [] s = "Gravity" -> "gravity"
      [] s = "Balance" -> "balance"
      [] s = "Analyze Document" -> "analyze document"
      [] OTHER -> s

\* word.replace(/[.,!?;:()"']$/, ''): one trailing punctuation mark is removed.
StripTrailingPunct(s) ==
    CASE s = "Gravity." -> "Gravity"
      [] s = "." -> ""
      [] OTHER -> s

\* /^(https?:\/\/)?(www\.)?(youtube\.com|youtu\.be)\/.+$/i
IsYouTubeUrl(s) == s = YouTubeTopic

\* /^(https?:\/\/[^\s]+\.[^\s]+)/i
IsUrl(s) == s \in {YouTubeTopic, WebTopic}

\* mimeType.startsWith('image/')
IsImageMime(m) == m \in {"image/png"}

Last(s) == s[Len(s)]
Front(s) == SubSeq(s, 1, Len(s) - 1)
Min(a, b) == IF a < b THEN a ELSE b
Max(a, b) == IF a > b THEN a ELSE b

(***************************************************************************)
(* Tabs.                                                                   *)
(***************************************************************************)
DefaultTabId == 0     \* 'default-tab'

createNewTab(id) ==
    [ id |-> id,
      title |-> "New Tab",
      historyStack |-> <<>>,
      futureStack |-> <<>>,
      currentTopic |-> "",
      content |-> <<>>,
      isLoading |-> FALSE,
      error |-> "",
      generationTime |-> <<>>,
      groundingSources |-> <<>>,
      isWebSearchMode |-> FALSE,
      isEbookMode |-> FALSE,
      documentName |-> "",
      documentContext |-> <<>>,
      fileData |-> <<>>,
      ebookPages |-> <<>>,
      currentPage |-> 0,
      webUrl |-> "",
      webSectionIndex |-> 0,
      generatedDiagrams |-> <<>>,
      language |-> BaseLanguage ]

TabIds(ts) == {ts[i].id : i \in 1..Len(ts)}

\* { ...tab, ...updates }
Merge(tab, updates) ==
    [f \in DOMAIN tab |-> IF f \in DOMAIN updates THEN updates[f] ELSE tab[f]]

\* prevTabs.map(tab => tab.id === id ? { ...tab, ...updates } : tab)
UpdateTab(ts, id, updates) ==
    [i \in 1..Len(ts) |-> IF ts[i].id = id THEN Merge(ts[i], updates) ELSE ts[i]]

\* tabs.find(t => t.id === activeTabId) || tabs[0]
FindTab(ts, id) ==
    IF id \in TabIds(ts)
    THEN ts[CHOOSE i \in 1..Len(ts) : ts[i].id = id /\ \A j \in 1..(i - 1) : ts[j].id # id]
    ELSE ts[1]

activeTab == FindTab(tabs, activeTabId)

(***************************************************************************)
(* The world a render sees.  Handlers, stream continuations and the fetch  *)
(* effect are functions from world to world; an action installs the world  *)
(* they return.  ok is FALSE when the run needs more suspended calls than   *)
(* the model keeps; fresh is TRUE when the run stored a new object as the   *)
(* generatedDiagrams of the active tab.                                    *)
(***************************************************************************)
World ==
    [ tabs |-> tabs, activeTabId |-> activeTabId, cache |-> cache,
      searchHistory |-> searchHistory,
      finalContentRef |-> finalContentRef, finalSourcesRef |-> finalSourcesRef,
      gens |-> gens, pendingDiagramsRef |-> pendingDiagramsRef, diagrams |-> diagrams,
      ok |-> TRUE, fresh |-> FALSE ]

ActiveOf(w) == FindTab(w.tabs, w.activeTabId)

\* updateActiveTab of the render that shows world w
updateActiveTab(w, updates) ==
    [w EXCEPT !.tabs = UpdateTab(w.tabs, w.activeTabId, updates),
              !.fresh = @ \/ "generatedDiagrams" \in DOMAIN updates]

\* The dependency array of the main data fetching effect.
Deps(w) ==
    LET t == ActiveOf(w)
    IN  << w.activeTabId, t.currentTopic, t.isLoading, t.isWebSearchMode, t.isEbookMode,
           t.currentPage, t.documentContext, t.fileData, t.webSectionIndex, t.language >>

\* cacheKey: `${web:|wiki:}${doc(name):}${topic.toLowerCase()}:${section}:${language}`
CacheKey(t) ==
    [ mode |-> IF t.isWebSearchMode THEN "web:" ELSE "wiki:",
      doc |-> t.documentName,
      topic |-> ToLower(t.currentTopic),
      section |-> t.webSectionIndex,
      language |-> t.language ]

\* A rendering of the key that keeps an empty document segment.
CacheKeyTextKeepsEmptyDoc(k) ==
    k.mode \o k.doc \o ":" \o k.topic \o ":" \o ToString(k.section) \o ":" \o k.language

\* The template string of cacheKey, from the parts CacheKey keeps apart.
CacheKeyText(k) ==
    k.mode \o (IF k.doc # "" THEN "doc(" \o k.doc \o "):" ELSE "")
           \o k.topic \o ":" \o ToString(k.section) \o ":" \o k.language

\* The branch of fetchData that a tab's fields select.
Strategy(t) ==
    LET trimmedTopic == Trim(t.currentTopic)
        hasDoc == t.documentContext # <<>> \/ t.fileData # <<>>
    IN  IF t.fileData # <<>> /\ IsImageMime(t.fileData[1].mimeType) THEN "imageAnalysis"
        ELSE IF IsYouTubeUrl(trimmedTopic) THEN "videoSummary"
        ELSE IF IsUrl(trimmedTopic) /\ t.documentContext = <<>> /\ t.fileData = <<>>
             THEN "webResource"
        ELSE IF t.isWebSearchMode
             THEN (IF hasDoc THEN "documentQuery" ELSE "webSearch")
        ELSE IF hasDoc THEN "documentQuery"
        ELSE "definition"

\* The strategies whose stream events carry grounding sources.
SourceStrategies == {"videoSummary", "webResource", "definition"}

GenIds == 1..MaxGens
FreeGenIds(w) == GenIds \ {g.id : g \in w.gens}

\* A run of fetchData or fetchTranslation suspended in its first await; what
\* its closure captured from the render that started it.
NewGen(w, kind) ==
    LET t == ActiveOf(w)
    IN  [ id |-> CHOOSE i \in FreeGenIds(w) : \A j \in FreeGenIds(w) : i <= j,
          kind |-> kind,
          tab |-> w.activeTabId,
          strategy |-> IF kind = "fetch" THEN Strategy(t) ELSE "translation",
          cacheKey |-> CacheKey(t),
          topic |-> t.currentTopic,
          documentName |-> t.documentName,
          language |-> t.language,
          acc |-> <<>>,
          n |-> 0,
          isCancelled |-> FALSE ]

\* fetchData(): the refs are reset before the first await.
StartFetch(w) ==
    IF FreeGenIds(w) = {} THEN [w EXCEPT !.ok = FALSE]
    ELSE [w EXCEPT !.gens = @ \cup {NewGen(w, "fetch")},
                   !.finalContentRef = <<>>,
                   !.finalSourcesRef = <<>>]

\* fetchTranslation()
StartTranslation(w) ==
    IF FreeGenIds(w) = {} THEN [w EXCEPT !.ok = FALSE]
    ELSE [w EXCEPT !.gens = @ \cup {NewGen(w, "translate")}]

\* A cleanup that leaves the flag of the run being replaced unset.
CleanupKeepsFlag(w) == w

\* return () => { isCancelled = true; } of the effect run being replaced
Cleanup(w) ==
    [w EXCEPT !.gens = {[g EXCEPT !.isCancelled = TRUE] : g \in @}]

\* activeTab.ebookPages[activeTab.currentPage] ?? ''
PageContent(t) ==
    IF t.currentPage + 1 \in DOMAIN t.ebookPages THEN t.ebookPages[t.currentPage + 1] ELSE <<>>

IsLocalTextMode(t) ==
    t.isEbookMode /\ ~t.isWebSearchMode /\ t.fileData = <<>> /\ t.documentContext # <<>>

\* A fetch effect without the loading guard: it starts a generation whenever
\* the cache check does not apply.
MainEffectWithoutGuard(w) ==
    LET t == ActiveOf(w)
        key == CacheKey(t)
    IN  IF t.currentTopic = "" THEN w
        ELSE IF IsLocalTextMode(t) THEN
            IF t.language # BaseLanguage
            THEN (IF t.isLoading THEN StartTranslation(w) ELSE w)
            ELSE IF t.content # PageContent(t)
                 THEN updateActiveTab(w, [ content |-> PageContent(t), isLoading |-> FALSE,
                                           error |-> "", groundingSources |-> <<>> ])
                 ELSE w
        ELSE IF key \in DOMAIN w.cache /\ ~t.isLoading /\ t.content = <<>> THEN
            updateActiveTab(w, [ content |-> w.cache[key].content,
                                 generationTime |-> w.cache[key].generationTime,
                                 groundingSources |-> w.cache[key].sources,
                                 error |-> "", isLoading |-> FALSE,
                                 title |-> t.currentTopic ])
        ELSE StartFetch(w)

\* The body of the main data fetching effect.
MainEffect(w) ==
    LET t == ActiveOf(w)
        key == CacheKey(t)
    IN  IF t.currentTopic = "" THEN w
        ELSE IF IsLocalTextMode(t) THEN
            IF t.language # BaseLanguage
            THEN (IF t.isLoading THEN StartTranslation(w) ELSE w)
            ELSE IF t.content # PageContent(t)
                 THEN updateActiveTab(w, [ content |-> PageContent(t), isLoading |-> FALSE,
                                           error |-> "", groundingSources |-> <<>> ])
                 ELSE w
        ELSE IF key \in DOMAIN w.cache /\ ~t.isLoading /\ t.content = <<>> THEN
            updateActiveTab(w, [ content |-> w.cache[key].content,
                                 generationTime |-> w.cache[key].generationTime,
                                 groundingSources |-> w.cache[key].sources,
                                 error |-> "", isLoading |-> FALSE,
                                 title |-> t.currentTopic ])
        ELSE IF ~t.isLoading THEN w
        ELSE StartFetch(w)

\* The dependency array of the diagram generation effect.
DiagramDeps(w) ==
    LET t == ActiveOf(w)
    IN  << t.content, t.id, t.generatedDiagrams >>

\* match[1] of every match of /\[DIAGRAM:\s*(.*?)\]/g in one token, in order.
MarkerPrompts(token) ==
    CASE token = "[DIAGRAM: cell]" -> <<"cell">>
      [] token = "[DIAGRAM: cell] [DIAGRAM: cell]" -> <<"cell", "cell">>
      [] OTHER -> <<>>

\* The prompts of the matches in a content, in order.
RECURSIVE ContentPrompts(_)
ContentPrompts(content) ==
    IF content = <<>> THEN <<>>
    ELSE MarkerPrompts(Head(content)) \o ContentPrompts(Tail(content))

DiagramIds == 1..MaxDiagrams
FreeDiagramIds(w) == DiagramIds \ {d.id : d \in w.diagrams}

\* A scan that asks for a prompt whether or not a call for it is pending.
RECURSIVE ScanIgnoresPending(_, _, _)
ScanIgnoresPending(w, t, prompts) ==
    IF prompts = <<>> THEN w
    ELSE LET prompt == Head(prompts)
         IN  IF prompt \notin DOMAIN t.generatedDiagrams
             THEN IF FreeDiagramIds(w) = {} THEN [w EXCEPT !.ok = FALSE]
                  ELSE ScanIgnoresPending(
                          [w EXCEPT !.pendingDiagramsRef = @ \cup {prompt},
                                    !.diagrams = @ \cup
                                        {[ id |-> CHOOSE i \in FreeDiagramIds(w) :
                                                      \A j \in FreeDiagramIds(w) : i <= j,
                                           prompt |-> prompt, tab |-> t.id ]}],
                          t, Tail(prompts))
             ELSE ScanIgnoresPending(w, t, Tail(prompts))

\* The while loop of the diagram generation effect over the matches; t is
\* the activeTab of the render.
RECURSIVE Scan(_, _, _)
Scan(w, t, prompts) ==
    IF prompts = <<>> THEN w
    ELSE LET prompt == Head(prompts)
         IN  IF prompt \notin DOMAIN t.generatedDiagrams /\ prompt \notin w.pendingDiagramsRef
             THEN IF FreeDiagramIds(w) = {} THEN [w EXCEPT !.ok = FALSE]
                  ELSE Scan([w EXCEPT !.pendingDiagramsRef = @ \cup {prompt},
                                      !.diagrams = @ \cup
                                          {[ id |-> CHOOSE i \in FreeDiagramIds(w) :
                                                        \A j \in FreeDiagramIds(w) : i <= j,
                                             prompt |-> prompt, tab |-> t.id ]}],
                            t, Tail(prompts))
             ELSE Scan(w, t, Tail(prompts))

\* The body of the diagram generation effect.
DiagramEffect(w) ==
    LET t == ActiveOf(w)
    IN  IF t.content = <<>> THEN w ELSE Scan(w, t, ContentPrompts(t.content))

\* The render after world prev became world w.  The diagram generation
\* effect runs when one of its dependencies changed; then the main effect is
\* re-run (its previous run cleaned up first) when one of its dependencies
\* changed, and the update it makes is rendered in turn.
RECURSIVE Render(_, _)
Render(prev, w) ==
    LET d == IF w.fresh \/ DiagramDeps(prev) # DiagramDeps(w)
             THEN DiagramEffect([w EXCEPT !.fresh = FALSE])
             ELSE w
    IN  IF Deps(prev) = Deps(d) THEN d ELSE Render(d, MainEffect(Cleanup(d)))

\* The same render when the dependency array of the main effect holds a
\* fresh object (fileData).
RenderChanged(prev, w) ==
    LET d == IF w.fresh \/ DiagramDeps(prev) # DiagramDeps(w)
             THEN DiagramEffect([w EXCEPT !.fresh = FALSE])
             ELSE w
    IN  Render(d, MainEffect(Cleanup(d)))

Install(w) ==
    /\ w.ok
    /\ tabs' = w.tabs
    /\ activeTabId' = w.activeTabId
    /\ cache' = w.cache
    /\ searchHistory' = w.searchHistory
    /\ finalContentRef' = w.finalContentRef
    /\ finalSourcesRef' = w.finalSourcesRef
    /\ gens' = w.gens
    /\ pendingDiagramsRef' = w.pendingDiagramsRef
    /\ diagrams' = w.diagrams

(***************************************************************************)
(* The content generation service, as the orchestrator sees it: what one   *)
(* call may deliver.                                                       *)
(***************************************************************************)
Chunks == {"alpha"}
SourceLists == {<<"src1">>}
ElapsedTimes == {1}
ServiceError == "service error"

\* { type: 'chunk', text } of streamInDocumentQuery / streamImageAnalysis /
\* streamTranslation: yielded only when chunk.text is non-empty.
TextEvents == {[text |-> c, sources |-> <<>>] : c \in Chunks}

\* { type: 'chunk', text: text ?? '', sources } of streamWikiDefinition,
\* streamYouTubeSummary, streamWebResource: yielded when there is text or a
\* non-empty source list; sources is <<>> when undefined, else <<list>>.
SourcedEvents ==
    {e \in [text : Chunks \cup {""}, sources : {<<>>, << <<>> >>} \cup {<<l>> : l \in SourceLists}] :
        e.text # "" \/ (e.sources # <<>> /\ e.sources[1] # <<>>)}

EventsOf(g) == IF g.strategy \in SourceStrategies THEN SourcedEvents ELSE TextEvents

\* { content, sources } of performAiSearch
SearchResults == [content : {<<>>} \cup {<<c>> : c \in Chunks}, sources : {<<>>} \cup SourceLists]

Drop(w, g) == [w EXCEPT !.gens = @ \ {g}]

\* A write that starts from an empty map instead of a copy of the cache.
CacheSetAlone(c, key, entry) ==
    [k \in {key} |-> entry]

\* newCache.set(key, entry)
CacheSet(c, key, entry) ==
    [k \in DOMAIN c \cup {key} |-> IF k = key THEN entry ELSE c[k]]

\* A finally block that writes the cache entry and leaves the session as
\* it is.
FinallyKeepsLoading(w, g, genTime) ==
    [w EXCEPT
        !.cache = CacheSet(@, g.cacheKey,
                           [ content |-> w.finalContentRef, generationTime |-> <<genTime>>,
                             sources |-> w.finalSourcesRef, language |-> g.language ]),
        !.gens = @ \ {g}]

\* The finally block of fetchData for a run that was not cancelled.
Finally(w, g, genTime) ==
    [w EXCEPT
        !.cache = CacheSet(@, g.cacheKey,
                           [ content |-> w.finalContentRef, generationTime |-> <<genTime>>,
                             sources |-> w.finalSourcesRef, language |-> g.language ]),
        !.tabs = UpdateTab(@, g.tab,
                           [ isLoading |-> FALSE, generationTime |-> <<genTime>>,
                             title |-> IF g.documentName # "" THEN g.documentName ELSE g.topic ]),
        !.gens = @ \ {g}]

\* A loop iteration that applies the event without looking at isCancelled.
FetchChunkUnguarded(w, g, ev) ==
    LET sourced == g.strategy \in SourceStrategies
        acc == IF ev.text # "" THEN g.acc \o <<ev.text>> ELSE g.acc
        src == IF sourced /\ ev.sources # <<>> THEN ev.sources[1] ELSE w.finalSourcesRef
    IN  [w EXCEPT
            !.gens = (@ \ {g}) \cup {[g EXCEPT !.acc = acc]},
            !.finalContentRef = acc,
            !.finalSourcesRef = src,
            !.tabs = UpdateTab(@, g.tab,
                               IF sourced THEN [content |-> acc, groundingSources |-> src]
                               ELSE [content |-> acc])]

\* A loop iteration that adds the text of the event to what the session
\* displays.
FetchChunkOntoContent(w, g, ev) ==
    IF g.isCancelled THEN Drop(w, g)
    ELSE LET sourced == g.strategy \in SourceStrategies
             acc == IF ev.text # "" THEN g.acc \o <<ev.text>> ELSE g.acc
             src == IF sourced /\ ev.sources # <<>> THEN ev.sources[1] ELSE w.finalSourcesRef
             shown == FindTab(w.tabs, g.tab).content \o <<ev.text>>
         IN  [w EXCEPT
                !.gens = (@ \ {g}) \cup {[g EXCEPT !.acc = acc]},
                !.finalContentRef = acc,
                !.finalSourcesRef = src,
                !.tabs = UpdateTab(@, g.tab,
                                   IF sourced THEN [content |-> shown, groundingSources |-> src]
                                   ELSE [content |-> shown])]

\* One iteration of a for-await loop of fetchData on a chunk event.
FetchChunk(w, g, ev) ==
    IF g.isCancelled THEN Drop(w, g)
    ELSE LET sourced == g.strategy \in SourceStrategies
             acc == IF ev.text # "" THEN g.acc \o <<ev.text>> ELSE g.acc
             src == IF sourced /\ ev.sources # <<>> THEN ev.sources[1] ELSE w.finalSourcesRef
         IN  [w EXCEPT
                !.gens = (@ \ {g}) \cup {[g EXCEPT !.acc = acc]},
                !.finalContentRef = acc,
                !.finalSourcesRef = src,
                !.tabs = UpdateTab(@, g.tab,
                                   IF sourced THEN [content |-> acc, groundingSources |-> src]
                                   ELSE [content |-> acc])]

\* The stream ends: the loop exits and the finally block runs.
FetchEnd(w, g, genTime) ==
    IF g.isCancelled THEN Drop(w, g) ELSE Finally(w, g, genTime)

\* The service fails: a stream yields its { type: 'error' } event, which the
\* loop ignores unless cancelled, and then throws; performAiSearch throws.
\* The catch block and then the finally block run.
FetchFail(w, g, genTime) ==
    IF g.isCancelled THEN Drop(w, g)
    ELSE Finally([w EXCEPT !.tabs = UpdateTab(@, g.tab, [error |-> ServiceError, isLoading |-> FALSE])],
                 g, genTime)

\* performAiSearch resolves: the one-shot result is applied and the finally
\* block runs in the same continuation.
SearchResolved(w, g, res, genTime) ==
    IF g.isCancelled THEN Drop(w, g)
    ELSE Finally([w EXCEPT
                    !.finalContentRef = res.content,
                    !.finalSourcesRef = res.sources,
                    !.tabs = UpdateTab(@, g.tab, [content |-> res.content, groundingSources |-> res.sources])],
                 g, genTime)

\* One iteration of the for-await loop of fetchTranslation on a chunk event;
\* when cancelled the loop breaks and the statement after it runs.
TranslationChunk(w, g, ev) ==
    IF g.isCancelled
    THEN Drop([w EXCEPT !.tabs = UpdateTab(@, g.tab, [isLoading |-> FALSE])], g)
    ELSE LET acc == g.acc \o <<ev.text>>
         IN  [w EXCEPT
                !.gens = (@ \ {g}) \cup {[g EXCEPT !.acc = acc]},
                !.tabs = UpdateTab(@, g.tab, [content |-> acc])]

\* streamTranslation returns, at its end or after its { type: 'error' } event
\* (it does not throw): the statement after the loop runs.
TranslationEnd(w, g) ==
    Drop([w EXCEPT !.tabs = UpdateTab(@, g.tab, [isLoading |-> FALSE])], g)

\* streamTranslation fails: it yields its { type: 'error' } event, which the
\* loop of fetchTranslation does not handle, and returns without throwing;
\* the statement after the loop runs.
TranslationFail(w, g) == TranslationEnd(w, g)

IsStream(g) == g.kind = "fetch" /\ g.strategy # "webSearch"

GenChunk(g, ev) ==
    /\ IsStream(g)
    /\ ev \in EventsOf(g)
    /\ ev.text # "" => Len(g.acc) < MaxEvents
    /\ Install(Render(World, FetchChunk(World, g, ev)))
    /\ UNCHANGED uploads

GenEnd(g, genTime) ==
    /\ IsStream(g)
    /\ Install(Render(World, FetchEnd(World, g, genTime)))
    /\ UNCHANGED uploads

GenFail(g, genTime) ==
    /\ g.kind = "fetch"
    /\ Install(Render(World, FetchFail(World, g, genTime)))
    /\ UNCHANGED uploads

GenSearchResolved(g, res, genTime) ==
    /\ g.kind = "fetch" /\ g.strategy = "webSearch"
    /\ Install(Render(World, SearchResolved(World, g, res, genTime)))
    /\ UNCHANGED uploads

GenTranslationChunk(g, ev) ==
    /\ g.kind = "translate"
    /\ Len(g.acc) < MaxEvents
    /\ Install(Render(World, TranslationChunk(World, g, ev)))
    /\ UNCHANGED uploads

GenTranslationEnd(g) ==
    /\ g.kind = "translate"
    /\ Install(Render(World, TranslationEnd(World, g)))
    /\ UNCHANGED uploads

GenTranslationFail(g) ==
    /\ g.kind = "translate"
    /\ Install(Render(World, TranslationFail(World, g)))
    /\ UNCHANGED uploads

(***************************************************************************)
(* The image generation service and the chunks that carry diagram markers. *)
(***************************************************************************)
Images == {"img"}
MarkerChunks == {"[DIAGRAM: cell] [DIAGRAM: cell]"}

\* { type: 'chunk', text } with one or two markers in the text
DiagramEvents == {[text |-> c, sources |-> <<>>] : c \in MarkerChunks}

\* { ...t.generatedDiagrams, [prompt]: base64 }
DiagramSet(m, prompt, base64) ==
    [q \in DOMAIN m \cup {prompt} |-> IF q = prompt THEN base64 ELSE m[q]]

\* A then callback that stores the image in the tab that is active when the
\* call resolves.
DiagramThenIntoActive(w, d, base64) ==
    [w EXCEPT
        !.tabs = [i \in 1..Len(@) |->
                    IF @[i].id = w.activeTabId
                    THEN [@[i] EXCEPT !.generatedDiagrams = DiagramSet(@, d.prompt, base64)]
                    ELSE @[i]],
        !.pendingDiagramsRef = @ \ {d.prompt},
        !.diagrams = @ \ {d}]

\* generateInfoDiagram(prompt) resolves: the then callback stores the image
\* in the tab that was active when the call was made, the finally callback
\* takes the prompt out of the pending set.
DiagramThen(w, d, base64) ==
    [w EXCEPT
        !.tabs = [i \in 1..Len(@) |->
                    IF @[i].id = d.tab
                    THEN [@[i] EXCEPT !.generatedDiagrams = DiagramSet(@, d.prompt, base64)]
                    ELSE @[i]],
        !.pendingDiagramsRef = @ \ {d.prompt},
        !.diagrams = @ \ {d}]

\* generateInfoDiagram(prompt) rejects: the catch callback logs, the finally
\* callback takes the prompt out of the pending set.
DiagramCatch(w, d) ==
    [w EXCEPT !.pendingDiagramsRef = @ \ {d.prompt}, !.diagrams = @ \ {d}]

DiagramResolved(d, base64) ==
    /\ Install(Render(World, DiagramThen(World, d, base64)))
    /\ UNCHANGED uploads

DiagramFailed(d) ==
    /\ Install(Render(World, DiagramCatch(World, d)))
    /\ UNCHANGED uploads

\* A stream that delivers its text in several deltas.
MaxDeltas == 2
Deltas == {"alpha", "beta"}
DeltaEvents == {[text |-> c, sources |-> <<>>] : c \in Deltas}

GenDelta(g, ev) ==
    /\ IsStream(g)
    /\ ev \in DeltaEvents
    /\ Len(g.acc) < MaxDeltas
    /\ Install(Render(World, FetchChunk(World, g, ev)))
    /\ UNCHANGED uploads

\* What streamInDocumentQuery makes of the binary attachment of a session:
\* a text that depends on the bytes it was sent.
Transcript(t) == IF t.fileData # <<>> THEN t.fileData[1].base64 ELSE ""

\* The stream of a document query delivers the text made of the attachment
\* the run sent (activeTab.fileData of the render that started it; fileData
\* is a dependency of the effect, so a run that is not superseded sent the
\* attachment its session holds).
GenTranscript(g) ==
    /\ IsStream(g) /\ g.strategy = "documentQuery"
    /\ Len(g.acc) < MaxEvents
    /\ Transcript(FindTab(tabs, g.tab)) # ""
    /\ Install(Render(World, FetchChunk(World, g,
                    [text |-> Transcript(FindTab(tabs, g.tab)), sources |-> <<>>])))
    /\ UNCHANGED uploads

\* A chunk that carries diagram markers arrives.
GenDiagramChunk(g, ev) ==
    /\ IsStream(g)
    /\ ev \in DiagramEvents
    /\ Len(g.acc) < MaxMarkers
    /\ Install(Render(World, FetchChunk(World, g, ev)))
    /\ UNCHANGED uploads

(***************************************************************************)
(* Tab handlers.  generateId() draws a random id; the model takes the      *)
(* least id that no tab and no suspended call still refers to.             *)
(***************************************************************************)
IdPool == 1..(MaxTabs + MaxGens + MaxUploads + MaxDiagrams)

generateId ==
    LET used == TabIds(tabs) \cup {g.tab : g \in gens} \cup {u.tab : u \in uploads}
                    \cup {d.tab : d \in diagrams}
        free == IdPool \ used
    IN  CHOOSE i \in free : \A j \in free : i <= j

\* prev.filter(t => t.id !== id)
RemoveTab(ts, id) == SelectSeq(ts, LAMBDA t : t.id # id)

handleTabSwitch(w, id) == [w EXCEPT !.activeTabId = id]

\* A new tab that is opened in the background.
handleNewTabInBackground(w, newId) ==
    [w EXCEPT !.tabs = Append(@, createNewTab(newId))]

handleNewTab(w, newId) ==
    [w EXCEPT !.tabs = Append(@, createNewTab(newId)), !.activeTabId = newId]

\* A close that replaces the last tab and leaves the selector on the closed one.
handleCloseTabKeepsSelector(w, id, newId) ==
    LET newTabs == RemoveTab(w.tabs, id)
    IN  IF Len(newTabs) = 0
        THEN [w EXCEPT !.tabs = <<createNewTab(newId)>>]
        ELSE IF id = w.activeTabId
        THEN [w EXCEPT !.tabs = newTabs, !.activeTabId = Last(newTabs).id]
        ELSE [w EXCEPT !.tabs = newTabs]

handleCloseTab(w, id, newId) ==
    LET newTabs == RemoveTab(w.tabs, id)
    IN  IF Len(newTabs) = 0
        THEN [w EXCEPT !.tabs = <<createNewTab(newId)>>, !.activeTabId = newId]
        ELSE IF id = w.activeTabId
        THEN [w EXCEPT !.tabs = newTabs, !.activeTabId = Last(newTabs).id]
        ELSE [w EXCEPT !.tabs = newTabs]

(***************************************************************************)
(* Topic and history handlers.                                             *)
(***************************************************************************)
SearchHistoryLimit == 5

\* A history that compares the topics as they are written.
PushSearchHistoryCaseSensitive(prev, newTopic) ==
    LET kept == SelectSeq(prev, LAMBDA item : item # newTopic)
        newHist == <<newTopic>> \o kept
    IN  SubSeq(newHist, 1, Min(Len(newHist), SearchHistoryLimit))

\* [newTopic, ...prev.filter(item => item.toLowerCase() !== newTopic.toLowerCase())].slice(0, 5)
PushSearchHistory(prev, newTopic) ==
    LET kept == SelectSeq(prev, LAMBDA item : ToLower(item) # ToLower(newTopic))
        newHist == <<newTopic>> \o kept
    IN  SubSeq(newHist, 1, Min(Len(newHist), SearchHistoryLimit))

\* A topic change that leaves the future stack as it is.
handleTopicChangeKeepsFuture(w, newTopic) ==
    IF newTopic = "" THEN w
    ELSE LET t == ActiveOf(w)
         IN  updateActiveTab([w EXCEPT !.searchHistory = PushSearchHistory(@, newTopic)],
                [ historyStack |-> IF t.currentTopic # "" THEN Append(t.historyStack, t.currentTopic)
                                   ELSE t.historyStack,
                  currentTopic |-> newTopic,
                  content |-> <<>>,
                  isLoading |-> TRUE,
                  error |-> "",
                  title |-> newTopic,
                  webUrl |-> IF IsUrl(Trim(newTopic)) THEN Trim(newTopic) ELSE "",
                  webSectionIndex |-> 0,
                  generatedDiagrams |-> <<>> ])

handleTopicChange(w, newTopic) ==
    IF newTopic = "" THEN w
    ELSE LET t == ActiveOf(w)
         IN  updateActiveTab([w EXCEPT !.searchHistory = PushSearchHistory(@, newTopic)],
                [ historyStack |-> IF t.currentTopic # "" THEN Append(t.historyStack, t.currentTopic)
                                   ELSE t.historyStack,
                  futureStack |-> <<>>,
                  currentTopic |-> newTopic,
                  content |-> <<>>,
                  isLoading |-> TRUE,
                  error |-> "",
                  title |-> newTopic,
                  webUrl |-> IF IsUrl(Trim(newTopic)) THEN Trim(newTopic) ELSE "",
                  webSectionIndex |-> 0,
                  generatedDiagrams |-> <<>> ])

handleSearch(w, query) == handleTopicChange(w, Trim(query))

handleWordClick(w, word) == handleTopicChange(w, StripTrailingPunct(Trim(word)))

\* UNIQUE_WORDS, cut to the words of the model
UNIQUE_WORDS == <<"Balance", "Gravity">>

handleRandom(w, randomIndex) ==
    LET word == UNIQUE_WORDS[randomIndex + 1]
        randomWord == IF ToLower(word) = ToLower(ActiveOf(w).currentTopic)
                      THEN UNIQUE_WORDS[((randomIndex + 1) % Len(UNIQUE_WORDS)) + 1]
                      ELSE word
    IN  handleTopicChange(w, randomWord)

\* A back that leaves the section index as it is.
handleBackKeepsSection(w) ==
    LET t == ActiveOf(w)
    IN  IF Len(t.historyStack) = 0 THEN w
        ELSE updateActiveTab(w,
                [ historyStack |-> Front(t.historyStack),
                  futureStack |-> <<t.currentTopic>> \o t.futureStack,
                  currentTopic |-> Last(t.historyStack),
                  isLoading |-> TRUE,
                  error |-> "",
                  title |-> Last(t.historyStack) ])

handleBack(w) ==
    LET t == ActiveOf(w)
    IN  IF Len(t.historyStack) = 0 THEN w
        ELSE updateActiveTab(w,
                [ historyStack |-> Front(t.historyStack),
                  futureStack |-> <<t.currentTopic>> \o t.futureStack,
                  currentTopic |-> Last(t.historyStack),
                  isLoading |-> TRUE,
                  error |-> "",
                  title |-> Last(t.historyStack),
                  webSectionIndex |-> 0 ])

\* A forward that does not push the topic being left onto the history stack.
handleForwardDropsLeft(w) ==
    LET t == ActiveOf(w)
    IN  IF Len(t.futureStack) = 0 THEN w
        ELSE updateActiveTab(w,
                [ futureStack |-> Tail(t.futureStack),
                  currentTopic |-> Head(t.futureStack),
                  isLoading |-> TRUE,
                  error |-> "",
                  title |-> Head(t.futureStack),
                  webSectionIndex |-> 0 ])

handleForward(w) ==
    LET t == ActiveOf(w)
    IN  IF Len(t.futureStack) = 0 THEN w
        ELSE updateActiveTab(w,
                [ historyStack |-> Append(t.historyStack, t.currentTopic),
                  futureStack |-> Tail(t.futureStack),
                  currentTopic |-> Head(t.futureStack),
                  isLoading |-> TRUE,
                  error |-> "",
                  title |-> Head(t.futureStack),
                  webSectionIndex |-> 0 ])

(***************************************************************************)
(* Mode, language, document and pagination handlers.                       *)
(***************************************************************************)
\* A language change that leaves the content as it is.
handleLanguageChangeKeepsContent(w, lang) ==
    updateActiveTab(w, [ language |-> lang, isLoading |-> TRUE ])

handleLanguageChange(w, lang) ==
    LET t == ActiveOf(w)
    IN  updateActiveTab(w,
            [ language |-> lang,
              isLoading |-> TRUE,
              content |-> IF t.isEbookMode /\ ~t.isWebSearchMode /\ t.fileData = <<>>
                          THEN t.content ELSE <<>> ])

\* onWebSearchModeChange
handleWebSearchModeChange(w, isWeb) ==
    updateActiveTab(w, [ isWebSearchMode |-> isWeb, isLoading |-> TRUE, content |-> <<>>,
                         generatedDiagrams |-> <<>> ])

handleClearDocument(w) ==
    updateActiveTab(w,
        [ documentContext |-> <<>>,
          documentName |-> "",
          fileData |-> <<>>,
          isEbookMode |-> FALSE,
          ebookPages |-> <<>>,
          currentPage |-> 0,
          isWebSearchMode |-> FALSE,
          currentTopic |-> DefaultTopic,
          title |-> DefaultTopic,
          historyStack |-> <<>>,
          language |-> BaseLanguage ])

\* activeTab.ebookPages[newPage]; undefined (here <<>>) when there is no such page
PageAt(t, newPage) ==
    IF newPage + 1 \in DOMAIN t.ebookPages THEN t.ebookPages[newPage + 1] ELSE <<>>

handlePrevPage(w) ==
    LET t == ActiveOf(w)
        newPage == Max(t.currentPage - 1, 0)
        isTranslationNeeded == t.language # BaseLanguage
    IN  updateActiveTab(w,
            [ currentPage |-> newPage,
              isLoading |-> isTranslationNeeded,
              content |-> IF isTranslationNeeded THEN <<>> ELSE PageAt(t, newPage) ])

handleNextPage(w) ==
    LET t == ActiveOf(w)
        newPage == Min(t.currentPage + 1, Len(t.ebookPages) - 1)
        isTranslationNeeded == t.language # BaseLanguage
    IN  updateActiveTab(w,
            [ currentPage |-> newPage,
              isLoading |-> isTranslationNeeded,
              content |-> IF isTranslationNeeded THEN <<>> ELSE PageAt(t, newPage) ])

\* A previous-section handler that does not stop at the first section.
handlePrevWebSectionUnclamped(w) ==
    updateActiveTab(w, [ webSectionIndex |-> ActiveOf(w).webSectionIndex - 1,
                         isLoading |-> TRUE, generatedDiagrams |-> <<>> ])

handlePrevWebSection(w) ==
    updateActiveTab(w, [ webSectionIndex |-> Max(ActiveOf(w).webSectionIndex - 1, 0),
                         isLoading |-> TRUE, generatedDiagrams |-> <<>> ])

handleNextWebSection(w) ==
    updateActiveTab(w, [ webSectionIndex |-> ActiveOf(w).webSectionIndex + 1,
                         isLoading |-> TRUE, generatedDiagrams |-> <<>> ])

(***************************************************************************)
(* File upload.  A file is what the document extractor makes of it: text   *)
(* is <<>> when no text was extracted (an image, a failed or empty         *)
(* extraction), readable is FALSE when blobToBase64 rejects.               *)
(***************************************************************************)
BookFile ==
    [ name |-> "book.pdf", type |-> "application/pdf", base64 |-> "b64-book",
      text |-> <<"page one", "page two">>, pages |-> << <<"page one">>, <<"page two">> >>,
      readable |-> TRUE ]

ImageFile ==
    [ name |-> "pic.png", type |-> "image/png", base64 |-> "b64-pic",
      text |-> <<>>, pages |-> <<>>, readable |-> TRUE ]

Files == {BookFile, ImageFile}

\* A PDF whose extraction throws: the inner catch leaves text = ''.
CorruptFile ==
    [ name |-> "bad.pdf", type |-> "application/pdf", base64 |-> "b64-bad",
      text |-> <<>>, pages |-> <<>>, readable |-> TRUE ]

\* A file whose blobToBase64 rejects.
UnreadableFile ==
    [ name |-> "gone.pdf", type |-> "application/pdf", base64 |-> "",
      text |-> <<>>, pages |-> <<>>, readable |-> FALSE ]

FailingFiles == {CorruptFile, UnreadableFile}

\* Two scanned PDFs of one file name and different contents: no text is
\* extracted from either, so each is kept as a binary attachment.
ScanA ==
    [ name |-> "scan.pdf", type |-> "application/pdf", base64 |-> "b64-scan-a",
      text |-> <<>>, pages |-> <<>>, readable |-> TRUE ]

ScanB ==
    [ name |-> "scan.pdf", type |-> "application/pdf", base64 |-> "b64-scan-b",
      text |-> <<>>, pages |-> <<>>, readable |-> TRUE ]

SameNameFiles == {ScanA, ScanB}

UploadIds == 1..MaxUploads

\* handleFileUpload up to its first await
handleFileUpload(w) == updateActiveTab(w, [isLoading |-> TRUE, error |-> ""])

\* An upload that leaves the web search flag of the tab as it is.
UploadUpdatesKeepsWebSearch(file) ==
    IF ~file.readable
    THEN [ error |-> "Error processing file.", isLoading |-> FALSE ]
    ELSE IF file.text = <<>>
    THEN [ fileData |-> << [ base64 |-> file.base64,
                             mimeType |-> IF file.type = "" THEN "application/octet-stream"
                                          ELSE file.type ] >>,
           documentContext |-> <<>>,
           ebookPages |-> <<>>,
           documentName |-> file.name,
           isEbookMode |-> TRUE,
           content |-> <<>>,
           currentTopic |-> BinaryTopic,
           title |-> file.name,
           historyStack |-> <<>>,
           isLoading |-> TRUE ]
    ELSE [ documentContext |-> file.text,
           ebookPages |-> file.pages,
           fileData |-> <<>>,
           content |-> IF Len(file.pages) > 0 THEN file.pages[1] ELSE <<>>,
           documentName |-> file.name,
           isEbookMode |-> TRUE,
           currentPage |-> 0,
           currentTopic |-> file.name,
           title |-> file.name,
           historyStack |-> <<>>,
           isLoading |-> FALSE ]

\* handleFileUpload after the file was read and extracted; updateActiveTab is
\* the one the call captured, bound to the tab that was active then.
UploadUpdates(file) ==
    IF ~file.readable
    THEN [ error |-> "Error processing file.", isLoading |-> FALSE ]
    ELSE IF file.text = <<>>
    THEN [ fileData |-> << [ base64 |-> file.base64,
                             mimeType |-> IF file.type = "" THEN "application/octet-stream"
                                          ELSE file.type ] >>,
           documentContext |-> <<>>,
           ebookPages |-> <<>>,
           documentName |-> file.name,
           isEbookMode |-> TRUE,
           isWebSearchMode |-> FALSE,
           content |-> <<>>,
           currentTopic |-> BinaryTopic,
           title |-> file.name,
           historyStack |-> <<>>,
           isLoading |-> TRUE ]
    ELSE [ documentContext |-> file.text,
           ebookPages |-> file.pages,
           fileData |-> <<>>,
           content |-> IF Len(file.pages) > 0 THEN file.pages[1] ELSE <<>>,
           documentName |-> file.name,
           isEbookMode |-> TRUE,
           isWebSearchMode |-> FALSE,
           currentPage |-> 0,
           currentTopic |-> file.name,
           title |-> file.name,
           historyStack |-> <<>>,
           isLoading |-> FALSE ]

UploadSettled(w, u) ==
    LET w1 == [w EXCEPT !.tabs = UpdateTab(@, u.tab, UploadUpdates(u.file))]
    IN  \* a stored fileData is a fresh object: the effect of its tab re-runs
        IF u.file.readable /\ u.file.text = <<>> /\ u.tab = w.activeTabId /\ u.tab \in TabIds(w.tabs)
        THEN RenderChanged(w, w1)
        ELSE Render(w, w1)

(***************************************************************************)
(* The intents as the rendered controls allow them: SearchBar disables     *)
(* its controls while the active tab is loading, the pagination controls   *)
(* and the clickable words are rendered only in the states given here.     *)
(***************************************************************************)
Queries == {"Gravity", " Gravity ", "  ", WebTopic}
Words == {"Gravity", "Gravity."}
Languages == {BaseLanguage, "Spanish"}

\* word.replace(/[.,!?;:()"']/g, '') of ContentDisplay
CleanWord(word) == IF word = "Gravity." THEN "Gravity" ELSE word

\* A push on a history stack stays within the model's bound.
PushFits(stack) == Len(stack) < MaxStack

Intent(w) == Install(Render(World, w)) /\ UNCHANGED uploads

TabSwitch(id) ==
    /\ id \in TabIds(tabs)
    /\ Intent(handleTabSwitch(World, id))

NewTab ==
    /\ Len(tabs) < MaxTabs
    /\ Intent(handleNewTab(World, generateId))

CloseTab(id) ==
    /\ id \in TabIds(tabs)
    /\ Intent(handleCloseTab(World, id, generateId))

\* SearchBar.handleSubmit
Search(query) ==
    /\ ~activeTab.isLoading
    /\ Trim(query) # ""
    /\ PushFits(activeTab.historyStack)
    /\ Intent(handleSearch(World, Trim(query)))

\* a word button of InteractiveContent
WordClick(word) ==
    /\ ~activeTab.isLoading /\ activeTab.content # <<>> /\ activeTab.error = ""
    /\ CleanWord(word) # ""
    /\ PushFits(activeTab.historyStack)
    /\ Intent(handleWordClick(World, CleanWord(word)))

Random(randomIndex) ==
    /\ ~activeTab.isLoading /\ activeTab.documentName = ""
    /\ PushFits(activeTab.historyStack)
    /\ Intent(handleRandom(World, randomIndex))

Back ==
    /\ ~activeTab.isLoading /\ Len(activeTab.historyStack) > 0
    /\ PushFits(activeTab.futureStack)
    /\ Intent(handleBack(World))

Forward ==
    /\ ~activeTab.isLoading /\ Len(activeTab.futureStack) > 0
    /\ PushFits(activeTab.historyStack)
    /\ Intent(handleForward(World))

LanguageChange(lang) ==
    /\ ~activeTab.isLoading
    /\ lang # activeTab.language
    /\ Intent(handleLanguageChange(World, lang))

WebSearchToggle ==
    /\ ~activeTab.isLoading
    /\ Intent(handleWebSearchModeChange(World, ~activeTab.isWebSearchMode))

ClearDocument ==
    /\ ~activeTab.isLoading /\ ~activeTab.isWebSearchMode /\ activeTab.documentName # ""
    /\ Intent(handleClearDocument(World))

PagesShown ==
    /\ activeTab.isEbookMode /\ ~activeTab.isWebSearchMode /\ activeTab.fileData = <<>>
    /\ Len(activeTab.ebookPages) > 1

PrevPage ==
    /\ PagesShown /\ ~activeTab.isLoading /\ activeTab.currentPage # 0
    /\ Intent(handlePrevPage(World))

NextPage ==
    /\ PagesShown /\ ~activeTab.isLoading
    /\ activeTab.currentPage < Len(activeTab.ebookPages) - 1
    /\ Intent(handleNextPage(World))

SectionsShown == activeTab.webUrl # "" /\ ~activeTab.isLoading /\ activeTab.error = ""

PrevWebSection ==
    /\ SectionsShown /\ activeTab.webSectionIndex # 0
    /\ Intent(handlePrevWebSection(World))

NextWebSection ==
    /\ SectionsShown
    /\ activeTab.webSectionIndex < MaxSection
    /\ Intent(handleNextWebSection(World))

FileUpload(file) ==
    /\ ~activeTab.isLoading /\ ~activeTab.isWebSearchMode
    /\ Cardinality(uploads) < MaxUploads
    /\ LET free == UploadIds \ {u.id : u \in uploads}
       IN  uploads' = uploads \cup
               {[ id |-> CHOOSE i \in free : \A j \in free : i <= j,
                  tab |-> activeTabId, file |-> file ]}
    /\ Install(Render(World, handleFileUpload(World)))

UploadDone(u) ==
    /\ Install(UploadSettled(World, u))
    /\ uploads' = uploads \ {u}

(***************************************************************************)
(* The state after mount: the mount effect gave the default tab its topic  *)
(* and the fetch effect started the generation for it.                     *)
(***************************************************************************)
MountWorld ==
    LET w0 == [ tabs |-> <<createNewTab(DefaultTabId)>>, activeTabId |-> DefaultTabId,
                cache |-> <<>>, searchHistory |-> <<>>,
                finalContentRef |-> <<>>, finalSourcesRef |-> <<>>,
                gens |-> {}, pendingDiagramsRef |-> {}, diagrams |-> {},
                ok |-> TRUE, fresh |-> FALSE ]
        t0 == ActiveOf(w0)
    IN  IF t0.currentTopic = "" /\ t0.id = DefaultTabId /\ ~t0.isLoading /\ t0.content = <<>>
        THEN Render(w0, updateActiveTab(w0, [ currentTopic |-> DefaultTopic, isLoading |-> TRUE,
                                              title |-> DefaultTopic ]))
        ELSE w0

Init ==
    /\ tabs = MountWorld.tabs
    /\ activeTabId = MountWorld.activeTabId
    /\ cache = MountWorld.cache
    /\ searchHistory = MountWorld.searchHistory
    /\ finalContentRef = MountWorld.finalContentRef
    /\ finalSourcesRef = MountWorld.finalSourcesRef
    /\ gens = MountWorld.gens
    /\ uploads = {}
    /\ pendingDiagramsRef = MountWorld.pendingDiagramsRef
    /\ diagrams = MountWorld.diagrams

(***************************************************************************)
(* The handlers called directly, in any state, as the props of SearchBar   *)
(* and the tests of the orchestrator call them.                            *)
(***************************************************************************)
SearchCall(query) ==
    /\ PushFits(activeTab.historyStack)
    /\ Intent(handleSearch(World, query))

WordClickCall(word) ==
    /\ PushFits(activeTab.historyStack)
    /\ Intent(handleWordClick(World, word))

RandomCall(randomIndex) ==
    /\ PushFits(activeTab.historyStack)
    /\ Intent(handleRandom(World, randomIndex))

BackCall ==
    /\ PushFits(activeTab.futureStack)
    /\ Intent(handleBack(World))

ForwardCall ==
    /\ PushFits(activeTab.historyStack)
    /\ Intent(handleForward(World))

PrevPageCall == Intent(handlePrevPage(World))

NextPageCall == Intent(handleNextPage(World))

(***************************************************************************)
(* What the service may do to a suspended generation.                      *)
(***************************************************************************)
\* Events that carry text and leave the sources undefined.
PlainEvents == {e \in SourcedEvents : e.sources = <<>>}

\* A stream that delivers events drawn from events and ends.
StreamOk(g, events) ==
    \/ \E ev \in events : GenChunk(g, ev)
    \/ \E genTime \in ElapsedTimes : GenEnd(g, genTime)

\* The same stream, which may also fail.
StreamStep(g, events) ==
    \/ StreamOk(g, events)
    \/ \E genTime \in ElapsedTimes : GenFail(g, genTime)

TranslationStep(g) ==
    \/ \E ev \in TextEvents : GenTranslationChunk(g, ev)
    \/ GenTranslationEnd(g)

(***************************************************************************)
(* Spec: several tabs, each searching a topic and going back and forth in  *)
(* its history through the rendered controls, and the generations these    *)
(* start, which may fail.                                                  *)
(***************************************************************************)
Next ==
    \/ \E g \in gens : StreamStep(g, PlainEvents)
    \/ \E id \in TabIds(tabs) : TabSwitch(id)
    \/ NewTab
    \/ Search("Gravity")
    \/ Back
    \/ Forward

Spec == Init /\ [][Next]_vars

(***************************************************************************)
(* SpecStore: the session store under new-tab, switch-tab and close-tab.   *)
(***************************************************************************)
NextStore ==
    \/ \E g \in gens : StreamStep(g, PlainEvents)
    \/ \E id \in TabIds(tabs) : TabSwitch(id)
    \/ NewTab
    \/ \E id \in TabIds(tabs) : CloseTab(id)

SpecStore == Init /\ [][NextStore]_vars

(***************************************************************************)
(* SpecNav: one tab reading a web resource section by section and going    *)
(* back and forth in its history; no generation fails.                     *)
(***************************************************************************)
NextNav ==
    \/ \E g \in gens : StreamOk(g, PlainEvents)
    \/ \E query \in {"Gravity", WebTopic} : Search(query)
    \/ Back
    \/ Forward
    \/ PrevWebSection
    \/ NextWebSection

SpecNav == Init /\ [][NextNav]_vars

(***************************************************************************)
(* SpecApi: the history handlers called directly, with or without entries  *)
(* on the stacks, once the active tab has settled; a first tab and then a  *)
(* second one opened beside it, on a topic read section by section; no     *)
(* generation fails.                                                       *)
(***************************************************************************)
NextApi ==
    \/ \E g \in gens : StreamOk(g, PlainEvents)
    \/ NewTab
    \/ Search(WebTopic)
    \/ NextWebSection
    \/ ~activeTab.isLoading /\ BackCall
    \/ ~activeTab.isLoading /\ ForwardCall

SpecApi == Init /\ [][NextApi]_vars

(***************************************************************************)
(* SpecTopic: every way of selecting a fresh topic through the rendered    *)
(* controls, in a first tab and then in a second one; no generation fails. *)
(***************************************************************************)
NextTopic ==
    \/ \E g \in gens : StreamOk(g, PlainEvents)
    \/ NewTab
    \/ \E query \in {" Gravity ", "  "} : Search(query)
    \/ \E word \in Words : WordClick(word)
    \/ \E i \in 0..(Len(UNIQUE_WORDS) - 1) : Random(i)
    \/ Back
    \/ Forward

SpecTopic == Init /\ [][NextTopic]_vars

(***************************************************************************)
(* SpecDoc: several tabs reading an uploaded text document in the base     *)
(* language or translated.                                                 *)
(***************************************************************************)
NextDoc ==
    \/ \E g \in gens : StreamOk(g, PlainEvents)
    \/ \E g \in gens : TranslationStep(g)
    \/ \E id \in TabIds(tabs) : TabSwitch(id)
    \/ NewTab
    \/ FileUpload(BookFile)
    \/ \E u \in uploads : UploadDone(u)
    \/ \E lang \in Languages : LanguageChange(lang)

SpecDoc == Init /\ [][NextDoc]_vars

(***************************************************************************)
(* SpecUpload: several tabs, each uploading a text document or an image    *)
(* over a definition, a document or an image; no generation fails.         *)
(***************************************************************************)
NextUpload ==
    \/ \E g \in gens : StreamOk(g, PlainEvents)
    \/ \E id \in TabIds(tabs) : TabSwitch(id)
    \/ NewTab
    \/ \E file \in Files : FileUpload(file)
    \/ \E u \in uploads : UploadDone(u)

SpecUpload == Init /\ [][NextUpload]_vars

(***************************************************************************)
(* SpecDiagram: a first tab and then a second one opened beside it, whose  *)
(* definitions stream in with diagram markers, and the image generations   *)
(* the markers cause.                                                      *)
(***************************************************************************)
NextDiagram ==
    \/ \E g \in gens, ev \in DiagramEvents : GenDiagramChunk(g, ev)
    \/ \E g \in gens, genTime \in ElapsedTimes : GenEnd(g, genTime)
    \/ NewTab
    \/ Search("Gravity")
    \/ \E d \in diagrams, base64 \in Images : DiagramResolved(d, base64)
    \/ \E d \in diagrams : DiagramFailed(d)

SpecDiagram == Init /\ [][NextDiagram]_vars

(***************************************************************************)
(* SpecPages: one tab that uploads a text document or an image, turns the  *)
(* pages of the document, reads them in the base language or translated    *)
(* and clears the document.  The page handlers are called with the page    *)
(* controls on screen, at the first and the last page too.                 *)
(***************************************************************************)
NextPages ==
    \/ \E g \in gens : StreamOk(g, PlainEvents)
    \/ \E g \in gens : TranslationStep(g)
    \/ \E file \in Files : FileUpload(file)
    \/ \E u \in uploads : UploadDone(u)
    \/ ClearDocument
    \/ \E lang \in Languages : LanguageChange(lang)
    \/ PagesShown /\ ~activeTab.isLoading /\ PrevPageCall
    \/ PagesShown /\ ~activeTab.isLoading /\ NextPageCall

SpecPages == Init /\ [][NextPages]_vars

(***************************************************************************)
(* SpecExtract: one tab that searches a topic, uploads a text document, a  *)
(* PDF whose extraction throws or a file that cannot be read, and clears   *)
(* the document.                                                           *)
(***************************************************************************)
NextExtract ==
    \/ \E g \in gens : StreamOk(g, PlainEvents)
    \/ Search("Gravity")
    \/ \E file \in {BookFile} \cup FailingFiles : FileUpload(file)
    \/ \E u \in uploads : UploadDone(u)
    \/ ClearDocument

SpecExtract == Init /\ [][NextExtract]_vars

(***************************************************************************)
(* SpecWeb: the default tab and then a second one, without a topic, opened *)
(* beside it; the web search switch and the language selector are used on  *)
(* either; definitions stream in, searches resolve in one piece.           *)
(***************************************************************************)
NextWeb ==
    \/ \E g \in gens : StreamOk(g, PlainEvents)
    \/ \E g \in gens, res \in SearchResults, genTime \in ElapsedTimes :
          GenSearchResolved(g, res, genTime)
    \/ NewTab
    \/ WebSearchToggle
    \/ \E lang \in Languages : LanguageChange(lang)

SpecWeb == Init /\ [][NextWeb]_vars

(***************************************************************************)
(* SpecFail: one tab that searches a topic, uploads a text document and    *)
(* changes the language; every generation and every translation may fail.  *)
(***************************************************************************)
NextFail ==
    \/ \E g \in gens : StreamStep(g, PlainEvents)
    \/ \E g \in gens : TranslationStep(g)
    \/ \E g \in gens : GenTranslationFail(g)
    \/ Search("Gravity")
    \/ FileUpload(BookFile)
    \/ \E u \in uploads : UploadDone(u)
    \/ \E lang \in Languages : LanguageChange(lang)

SpecFail == Init /\ [][NextFail]_vars

(***************************************************************************)
(* SpecSessions: tabs are opened, switched and closed while a definition   *)
(* with diagram markers streams in, its image generation is outstanding    *)
(* and a text document is being read for upload.                           *)
(***************************************************************************)
NextSessions ==
    \/ \E g \in gens, ev \in DiagramEvents : GenDiagramChunk(g, ev)
    \/ \E g \in gens, genTime \in ElapsedTimes : GenEnd(g, genTime)
    \/ \E id \in TabIds(tabs) : TabSwitch(id)
    \/ NewTab
    \/ \E id \in TabIds(tabs) : CloseTab(id)
    \/ FileUpload(BookFile)
    \/ \E u \in uploads : UploadDone(u)
    \/ \E d \in diagrams, base64 \in Images : DiagramResolved(d, base64)
    \/ \E d \in diagrams : DiagramFailed(d)

SpecSessions == Init /\ [][NextSessions]_vars

(***************************************************************************)
(* SpecStream: one tab that searches a topic and goes back and forth in    *)
(* its history while the text of each generation arrives in up to          *)
(* MaxDeltas deltas.                                                       *)
(***************************************************************************)
NextStream ==
    \/ \E g \in gens, ev \in DeltaEvents : GenDelta(g, ev)
    \/ \E g \in gens, genTime \in ElapsedTimes : GenEnd(g, genTime)
    \/ Search("Gravity")
    \/ Back
    \/ Forward

SpecStream == Init /\ [][NextStream]_vars

(***************************************************************************)
(* SpecSameName: two tabs, each uploading one of two scanned PDFs that     *)
(* have the same file name; the document queries stream the text of the    *)
(* attachment they were sent, or end without text.                         *)
(***************************************************************************)
NextSameName ==
    \/ \E g \in gens : GenTranscript(g)
    \/ \E g \in gens, genTime \in ElapsedTimes : GenEnd(g, genTime)
    \/ \E id \in TabIds(tabs) : TabSwitch(id)
    \/ NewTab
    \/ \E file \in SameNameFiles : FileUpload(file)
    \/ \E u \in uploads : UploadDone(u)

SpecSameName == Init /\ [][NextSameName]_vars

(***************************************************************************)
(* SpecSources: one tab that searches a topic and uploads an image; the    *)
(* definitions stream in with or without grounding sources, the image      *)
(* analysis streams text.                                                  *)
(***************************************************************************)
NextSources ==
    \/ \E g \in gens : StreamOk(g, EventsOf(g))
    \/ Search("Gravity")
    \/ FileUpload(ImageFile)
    \/ \E u \in uploads : UploadDone(u)

SpecSources == Init /\ [][NextSources]_vars

(***************************************************************************)
(* SpecHistory: one tab in which topics are searched, one of them in two  *)
(* spellings, more of them than the search history keeps, and the user     *)
(* goes back in the history of the tab.  handleSearch is also called with  *)
(* a query of blanks.                                                      *)
(***************************************************************************)
HistoryQueries == {"Gravity", "gravity", "balance", "unity", "harmony", "clarity", "light"}

NextHistory ==
    \/ \E g \in gens, genTime \in ElapsedTimes : GenEnd(g, genTime)
    \/ \E query \in HistoryQueries : Search(query)
    \/ SearchCall("  ")
    \/ Back

SpecHistory == Init /\ [][NextHistory]_vars

(***************************************************************************)
(* Properties.  A generation is delivered an event in a step when it is in *)
(* gens before the step and, after it, is gone or has a longer acc.        *)
(***************************************************************************)
GenById(gs, id) == CHOOSE g \in gs : g.id = id

\* The step hands generation g an event, its end or its failure.
Delivered(g) ==
    \/ g.id \notin {h.id : h \in gens'}
    \/ GenById(gens', g.id).acc # g.acc

\* The step starts a generation with the identity id.
Started(id) ==
    /\ id \in {h.id : h \in gens'}
    /\ ~GenById(gens', id).isCancelled
    /\ \/ id \notin {h.id : h \in gens}
       \/ GenById(gens, id).isCancelled

\* The ids of the tabs that are in the store before and after the step.
StayingTabs == TabIds(tabs) \cap TabIds(tabs')

\* C1: once a generation is superseded, no event, failure or completion of
\* it changes a session field or the result cache; translations included.
C1_SupersededChangesNothing ==
    [][\A g \in gens : (g.isCancelled /\ Delivered(g)) => (tabs' = tabs /\ cache' = cache)]_vars

\* C2: a generation of session A, in flight, superseded or not, never changes
\* the content of another session B, and the refs the runs share always hold
\* the text of the one run that is not superseded: what a run shows in its
\* session and stores under its fingerprint is its own accumulated text.
C2_Isolation ==
    /\ [](\A g \in gens : (g.kind = "fetch" /\ ~g.isCancelled) =>
            /\ finalContentRef = g.acc
            /\ g.acc # <<>> => FindTab(tabs, g.tab).content = g.acc)
    /\ [][\A g \in gens : Delivered(g) =>
            /\ \A b \in StayingTabs \ {g.tab} :
                  FindTab(tabs', b).content = FindTab(tabs, b).content
            /\ g.isCancelled => FindTab(tabs', g.tab).content = FindTab(tabs, g.tab).content
            /\ (~g.isCancelled /\ cache' # cache) => cache'[g.cacheKey].content = g.acc]_vars

\* Two generations started in two sessions are in flight, the first one
\* superseded by a tab switch, the second one streaming into its session.
C2_Witness ==
    \E a \in gens, b \in gens :
        /\ a.tab # b.tab
        /\ a.isCancelled /\ ~b.isCancelled
        /\ b.acc # <<>>
        /\ FindTab(tabs, a.tab).isLoading
        /\ FindTab(tabs, b.tab).content = b.acc

\* C3: a session never has two generations in flight of which neither is
\* superseded, and a generation is started only when every other one in
\* flight is superseded; a loading session that shows a topic has one.
C3_OneActiveGeneration ==
    /\ [](\A g \in gens, h \in gens : (~g.isCancelled /\ ~h.isCancelled) => g = h)
    /\ [](\A g \in gens : ~g.isCancelled => g.tab = activeTabId)
    /\ []((activeTab.isLoading /\ activeTab.currentTopic # "") =>
            \E g \in gens : ~g.isCancelled /\ g.tab = activeTabId)
    /\ [][\A id \in GenIds : Started(id) =>
            \A h \in gens' : h.id # id => h.isCancelled]_vars

\* A session with two generations in flight: the older one superseded when
\* the user left the tab, the newer one started when the user came back.
C3_Witness ==
    \E g \in gens, h \in gens :
        /\ g.tab = h.tab /\ g.id # h.id
        /\ g.isCancelled /\ ~h.isCancelled
        /\ h.tab = activeTabId

\* C4: when the service fails a generation that is not superseded, the
\* session's error is set, its loading flag is cleared and the cache is left
\* as it was.
C4_FailureWritesNoCache ==
    [][\A g \in gens :
          (~g.isCancelled /\ \E genTime \in ElapsedTimes : GenFail(g, genTime)) =>
              /\ FindTab(tabs', g.tab).error # ""
              /\ ~FindTab(tabs', g.tab).isLoading
              /\ cache' = cache]_vars

\* C5: no generation is started for a fingerprint the cache already holds
\* (the entry of a generation that completed).
C5_SecondFetchHitsCache ==
    [][\A id \in GenIds :
          Started(id) => GenById(gens', id).cacheKey \notin DOMAIN cache']_vars

\* C6: a step that changes the fingerprint of a session leaves the session
\* with empty content.
C6_FingerprintChangeClearsContent ==
    [][\A id \in StayingTabs :
          CacheKey(FindTab(tabs', id)) # CacheKey(FindTab(tabs, id)) =>
              FindTab(tabs', id).content = <<>>]_vars

\* The generation in flight for the active tab, if any, ends.
Settle(w) ==
    LET live == {g \in w.gens : ~g.isCancelled}
    IN  IF live = {} THEN w
        ELSE Render(w, FetchEnd(w, CHOOSE g \in live : TRUE, CHOOSE genTime \in ElapsedTimes : TRUE))

\* n back() calls, each made after the previous generation settled.
RECURSIVE BackN(_, _)
BackN(w, n) == IF n = 0 THEN w ELSE BackN(Settle(Render(w, handleBack(w))), n - 1)

\* n forward() calls, each made after the previous generation settled.
RECURSIVE ForwardN(_, _)
ForwardN(w, n) == IF n = 0 THEN w ELSE ForwardN(Settle(Render(w, handleForward(w))), n - 1)

\* The active tab shows a topic and nothing is in flight.
Stable == activeTab.currentTopic # "" /\ ~activeTab.isLoading /\ gens = {}

\* C7, as stated: from a stable topic, N back() calls followed by N forward()
\* calls give back the current topic, the remote section index and both
\* stacks (N up to the number of history entries).
C7_SymmetryRestoresSection ==
    Stable =>
        \A n \in 1..Len(activeTab.historyStack) :
            LET t == ActiveOf(ForwardN(BackN(World, n), n))
            IN  /\ t.currentTopic = activeTab.currentTopic
                /\ t.webSectionIndex = activeTab.webSectionIndex
                /\ t.historyStack = activeTab.historyStack
                /\ t.futureStack = activeTab.futureStack

\* C7, amended: from a stable topic, N back() calls followed by N forward()
\* calls, N up to the number of history entries, give back the current topic
\* and both stacks and leave the remote section index at 0; after the N
\* back() calls the topic is the N-th last history entry.
C7_HistorySymmetry ==
    Stable =>
        \A n \in 1..Len(activeTab.historyStack) :
            LET b == ActiveOf(BackN(World, n))
                t == ActiveOf(ForwardN(BackN(World, n), n))
            IN  /\ b.currentTopic = activeTab.historyStack[Len(activeTab.historyStack) - n + 1]
                /\ Len(b.futureStack) = Len(activeTab.futureStack) + n
                /\ t.currentTopic = activeTab.currentTopic
                /\ t.webSectionIndex = 0
                /\ t.historyStack = activeTab.historyStack
                /\ t.futureStack = activeTab.futureStack
                /\ ~t.isLoading

\* A stable web resource at its second section with two history entries
\* behind it and one future entry ahead: two calls each way are possible.
C7_Witness ==
    /\ Stable
    /\ activeTab.currentTopic = WebTopic
    /\ activeTab.webSectionIndex = 1
    /\ Len(activeTab.historyStack) = 2
    /\ ActiveOf(BackN(World, 2)).currentTopic = activeTab.historyStack[1]
    /\ ActiveOf(ForwardN(BackN(World, 2), 2)).webSectionIndex = 0

\* What a call of back() must make of the store.
BackPost ==
    LET t == activeTab
        u == FindTab(tabs', activeTabId)
    IN  /\ activeTabId' = activeTabId
        /\ Len(tabs') = Len(tabs)
        /\ \A i \in 1..Len(tabs) : tabs[i].id # activeTabId => tabs'[i] = tabs[i]
        /\ IF Len(t.historyStack) = 0
           THEN UNCHANGED vars
           ELSE /\ u.currentTopic = Last(t.historyStack)
                /\ u.historyStack = Front(t.historyStack)
                /\ u.futureStack = <<t.currentTopic>> \o t.futureStack
                /\ u.webSectionIndex = 0

\* What a call of forward() must make of the store.
ForwardPost ==
    LET t == activeTab
        u == FindTab(tabs', activeTabId)
    IN  /\ activeTabId' = activeTabId
        /\ Len(tabs') = Len(tabs)
        /\ \A i \in 1..Len(tabs) : tabs[i].id # activeTabId => tabs'[i] = tabs[i]
        /\ IF Len(t.futureStack) = 0
           THEN UNCHANGED vars
           ELSE /\ u.currentTopic = Head(t.futureStack)
                /\ u.futureStack = Tail(t.futureStack)
                /\ u.historyStack = Append(t.historyStack, t.currentTopic)
                /\ u.webSectionIndex = 0

\* C8: back() changes nothing when the history stack is empty; otherwise the
\* last history entry becomes the current topic and leaves the history stack,
\* the topic left goes on top of the future stack and the section index is 0.
\* forward() is the mirror on the future stack.  No other session changes.
C8_BackForward ==
    /\ [][BackCall => BackPost]_vars
    /\ [][ForwardCall => ForwardPost]_vars
    /\ [](\A w \in {World} :
            /\ Len(ActiveOf(w).historyStack) = 0 => handleBack(w) = w
            /\ Len(ActiveOf(w).futureStack) = 0 => handleForward(w) = w)

\* Beside the default tab, which holds text, a second tab came back from the
\* second section of a web resource: the topic left is on its future stack,
\* its history stack is empty again (a further back() finds nothing) and
\* its section index is 0.
C8_Witness ==
    /\ Len(tabs) = 2
    /\ tabs[1].content # <<>>
    /\ activeTabId = tabs[2].id
    /\ activeTab.currentTopic = WebTopic
    /\ activeTab.historyStack = <<>>
    /\ activeTab.futureStack = <<WebTopic>>
    /\ activeTab.webSectionIndex = 0
    /\ [section |-> 1, topic |-> WebTopic, mode |-> "wiki:", doc |-> "", language |-> BaseLanguage]
           \in DOMAIN cache

\* The step is a fresh topic selection: a search submission, a word click or
\* a random pick.
FreshSelection ==
    \/ \E query \in Queries : Search(query)
    \/ \E word \in Words : WordClick(word)
    \/ \E i \in 0..(Len(UNIQUE_WORDS) - 1) : Random(i)

\* C9: a fresh topic selection empties the future stack of the session and
\* appends the topic left to its history stack exactly when that topic is
\* not empty; forward() then changes nothing, and a session's future stack
\* goes from empty to non-empty only by a back(), which pops its history.
C9_FreshSelectionClearsFuture ==
    /\ [][FreshSelection =>
            LET t == activeTab
                u == FindTab(tabs', activeTabId)
            IN  /\ u.currentTopic # ""
                /\ u.futureStack = <<>>
                /\ u.historyStack = IF t.currentTopic # "" THEN Append(t.historyStack, t.currentTopic)
                                    ELSE t.historyStack
                /\ handleForward(World)' = World']_vars
    /\ [][\A id \in StayingTabs :
            (FindTab(tabs, id).futureStack = <<>> /\ FindTab(tabs', id).futureStack # <<>>) =>
                /\ FindTab(tabs, id).historyStack # <<>>
                /\ FindTab(tabs', id).historyStack = Front(FindTab(tabs, id).historyStack)
                /\ FindTab(tabs', id).futureStack = <<FindTab(tabs, id).currentTopic>>]_vars

\* The only tab went from Hypertext to Gravity, back, and then to Balance:
\* Gravity was searched and is on no stack any more, the future stack that
\* held it is empty.
C9_Witness ==
    /\ Len(tabs) = 1
    /\ activeTab.currentTopic = "Balance"
    /\ activeTab.historyStack = <<"Hypertext">>
    /\ activeTab.futureStack = <<>>
    /\ \E i \in 1..Len(searchHistory) : searchHistory[i] = "Gravity"

\* C10: the store always holds a session and the selector names one of
\* them; closing the only session leaves exactly one session, a fresh
\* default one with a new id, and that one is active.
C10_StoreNeverEmpty ==
    /\ [](Len(tabs) >= 1 /\ activeTabId \in TabIds(tabs))
    /\ [][(Len(tabs) = 1 /\ CloseTab(tabs[1].id)) =>
            /\ Len(tabs') = 1
            /\ tabs'[1].id # tabs[1].id
            /\ tabs'[1] = createNewTab(tabs'[1].id)
            /\ tabs'[1].currentTopic = "" /\ tabs'[1].content = <<>> /\ ~tabs'[1].isLoading
            /\ tabs'[1].historyStack = <<>> /\ tabs'[1].futureStack = <<>>
            /\ tabs'[1].language = BaseLanguage
            /\ activeTabId' = tabs'[1].id]_vars

\* The default tab was the only one and was closed while its generation was
\* in flight: the store holds one fresh session, which is active, and the
\* generation of the closed tab is superseded.
C10_Witness ==
    /\ Len(tabs) = 1
    /\ tabs[1] = createNewTab(activeTabId)
    /\ activeTabId # DefaultTabId
    /\ \E g \in gens : g.tab = DefaultTabId /\ g.isCancelled /\ \A h \in gens : h = g

\* The operation the precedence of the router selects for a session: image
\* attachment, YouTube URL, generic URL with no document, web search (with
\* or without a document), document, definition.
FirstMatchingRule(t) ==
    LET topic == Trim(t.currentTopic)
        loaded == t.documentContext # <<>> \/ t.fileData # <<>>
    IN  CASE t.fileData # <<>> /\ IsImageMime(t.fileData[1].mimeType) -> "imageAnalysis"
          [] OTHER -> CASE IsYouTubeUrl(topic) -> "videoSummary"
          [] OTHER -> CASE IsUrl(topic) /\ ~loaded -> "webResource"
          [] OTHER -> CASE t.isWebSearchMode /\ loaded -> "documentQuery"
          [] OTHER -> CASE t.isWebSearchMode -> "webSearch"
          [] OTHER -> CASE loaded -> "documentQuery"
          [] OTHER -> "definition"

\* C11: every generation that is started invokes the operation the first
\* matching rule of the precedence selects for its session.
C11_FirstMatchWins ==
    [][\A id \in GenIds :
          Started(id) =>
              LET g == GenById(gens', id)
              IN  g.strategy = FirstMatchingRule(FindTab(tabs', g.tab))]_vars

\* The generation g is for topic Hypertext in English with no document,
\* web search off, section 0.
HypertextRequest(g) ==
    /\ g.kind = "fetch"
    /\ g.topic = "Hypertext" /\ g.language = "English" /\ g.documentName = ""
    /\ g.cacheKey.mode = "wiki:" /\ g.cacheKey.section = 0

\* C12, as stated: that generation is a definition lookup and its
\* fingerprint is the string wiki::hypertext:0:English.
C12_FingerprintDoubleColon ==
    \A g \in gens :
        HypertextRequest(g) =>
            g.strategy = "definition" /\ CacheKeyText(g.cacheKey) = "wiki::hypertext:0:English"

\* C12, amended: that generation is a definition lookup and its fingerprint
\* is the string wiki:hypertext:0:English (no segment for an absent
\* document); the entry it writes is stored under that string.
C12_HypertextFingerprint ==
    /\ \A g \in gens :
          HypertextRequest(g) =>
              g.strategy = "definition" /\ CacheKeyText(g.cacheKey) = "wiki:hypertext:0:English"
    /\ \A k \in DOMAIN cache :
          (k.topic = "hypertext" /\ k.mode = "wiki:" /\ k.doc = "" /\ k.section = 0
              /\ k.language = "English") => CacheKeyText(k) = "wiki:hypertext:0:English"

\* The generation for Hypertext is in flight a second time, after a first
\* one stored its text under the fingerprint.
C12_Witness ==
    /\ \E g \in gens : HypertextRequest(g) /\ ~g.isCancelled
    /\ \E k \in DOMAIN cache :
          CacheKeyText(k) = "wiki:hypertext:0:English" /\ cache[k].content # <<>>

\* The tab holds an image as its attachment.
HoldsImage(t) == t.fileData # <<>> /\ IsImageMime(t.fileData[1].mimeType)

\* C13: when the upload of an image/png file settles, its tab holds the file
\* as a binary attachment of that mime type and no extracted text, is in
\* document mode with web search off, and is loading; the generation started
\* for a tab that holds an image, at once or when the user comes back to the
\* tab, is an image analysis.  The same comes of the upload whatever the
\* web search flag of the tab was.
C13_ImageUpload ==
    /\ [][\A u \in uploads :
            (u.file.type = "image/png" /\ u.file.readable /\ u.tab \in TabIds(tabs) /\ UploadDone(u)) =>
                LET t == FindTab(tabs', u.tab)
                IN  /\ t.fileData = << [base64 |-> u.file.base64, mimeType |-> "image/png"] >>
                    /\ t.documentContext = <<>>
                    /\ t.isEbookMode /\ ~t.isWebSearchMode /\ t.isLoading
                    /\ u.tab = activeTabId =>
                          \E g \in gens' : /\ ~g.isCancelled /\ g.tab = u.tab /\ g.acc = <<>>
                                           /\ g.strategy = "imageAnalysis"]_vars
    /\ [](\A g \in gens : (~g.isCancelled /\ HoldsImage(FindTab(tabs, g.tab))) =>
              g.kind = "fetch" /\ g.strategy = "imageAnalysis")
    /\ []((HoldsImage(activeTab) /\ activeTab.isLoading) =>
              \E g \in gens : ~g.isCancelled /\ g.tab = activeTabId /\ g.strategy = "imageAnalysis")
    /\ [](\A i \in 1..Len(tabs), web \in BOOLEAN :
              LET t == Merge(Merge(tabs[i], [isWebSearchMode |-> web]), UploadUpdates(ImageFile))
              IN  /\ HoldsImage(t) /\ t.isEbookMode /\ ~t.isWebSearchMode
                  /\ ~IsLocalTextMode(t) /\ Strategy(t) = "imageAnalysis")

\* An uploaded image is being analysed in the active tab and text of the
\* analysis has arrived; the other tab holds a text document.
C13_Witness ==
    /\ HoldsImage(activeTab)
    /\ activeTab.documentName = ImageFile.name
    /\ \E g \in gens : /\ ~g.isCancelled /\ g.tab = activeTabId /\ g.strategy = "imageAnalysis"
                       /\ g.acc # <<>> /\ activeTab.content = g.acc
    /\ activeTab.currentPage = 0 /\ activeTab.ebookPages = <<>>
    /\ \E i \in 1..Len(tabs) : tabs[i].id # activeTabId /\ tabs[i].documentContext # <<>>

\* The active tab shows a completed definition in the base language, the
\* text the cache holds for it.
ShowsCachedDefinition ==
    /\ ~activeTab.isEbookMode /\ activeTab.documentName = ""
    /\ activeTab.language = BaseLanguage
    /\ ~activeTab.isLoading /\ activeTab.content # <<>>
    /\ CacheKey(activeTab) \in DOMAIN cache
    /\ cache[CacheKey(activeTab)].content = activeTab.content

\* C14: a language change on a tab that shows a cached base-language
\* definition empties the content, sets loading, leaves the cache as it is
\* and starts a generation under the fingerprint of the new language; no
\* event of a generation in another language changes an entry of the base
\* language.
C14_LanguageChange ==
    /\ [][\A lang \in Languages :
            (ShowsCachedDefinition /\ LanguageChange(lang)) =>
                LET t == FindTab(tabs', activeTabId)
                IN  /\ t.language = lang /\ t.content = <<>> /\ t.isLoading
                    /\ cache' = cache
                    /\ \E g \in gens' :
                          /\ ~g.isCancelled /\ g.tab = activeTabId /\ g.kind = "fetch"
                          /\ g.acc = <<>>
                          /\ g.language = lang
                          /\ g.cacheKey = [CacheKey(activeTab) EXCEPT !.language = lang]]_vars
    /\ [][\A g \in gens :
            (Delivered(g) /\ g.language # BaseLanguage) =>
                \A k \in DOMAIN cache :
                    k.language = BaseLanguage => (k \in DOMAIN cache' /\ cache'[k] = cache[k])]_vars

\* The definition of Hypertext was generated in English and then, after a
\* language change, in Spanish: the cache holds both, the tab shows the
\* second.
C14_Witness ==
    /\ activeTab.currentTopic = DefaultTopic /\ activeTab.language = "Spanish"
    /\ ~activeTab.isEbookMode /\ ~activeTab.isLoading /\ activeTab.content # <<>>
    /\ CacheKey(activeTab) \in DOMAIN cache
    /\ [CacheKey(activeTab) EXCEPT !.language = BaseLanguage] \in DOMAIN cache

\* The prompts a content holds, as a set.
PromptsIn(content) == {ContentPrompts(content)[i] : i \in 1..Len(ContentPrompts(content))}

\* C15: a session never has two image generation calls outstanding for one
\* prompt, however often its content holds the marker and however often the
\* content is scanned; a prompt has a call outstanding exactly when it is in
\* the pending set.
C15_DiagramDedup ==
    /\ \A d \in diagrams, e \in diagrams : (d.tab = e.tab /\ d.prompt = e.prompt) => d = e
    /\ pendingDiagramsRef = {d.prompt : d \in diagrams}

\* The content of the active tab holds the marker of one prompt four times,
\* from two chunks that were scanned one after the other, the prompt is not
\* resolved and one call for it is outstanding.
C15_Witness ==
    /\ Len(ContentPrompts(activeTab.content)) = 4
    /\ PromptsIn(activeTab.content) = {"cell"}
    /\ "cell" \notin DOMAIN activeTab.generatedDiagrams
    /\ Cardinality({d \in diagrams : d.tab = activeTabId /\ d.prompt = "cell"}) = 1

\* C16: when the diagram effect scans the content of a session and finds a
\* prompt the session has not resolved, the session has a call of its own
\* outstanding for that prompt after the scan, whatever calls other sessions
\* have outstanding.
C16_PendingPerSession ==
    [][LET t == FindTab(tabs', activeTabId')
       IN  (DiagramDeps(World)' # DiagramDeps(World) /\ t.content # <<>>) =>
               \A prompt \in PromptsIn(t.content) :
                   prompt \notin DOMAIN t.generatedDiagrams =>
                       \E d \in diagrams' : d.prompt = prompt /\ d.tab = t.id]_vars

\* The page index of a session names one of its pages; a session without
\* pages keeps the index 0 of a new session.
PageIndexInRange(t) ==
    IF t.ebookPages = <<>>
    THEN t.currentPage = 0
    ELSE t.currentPage \in 0..(Len(t.ebookPages) - 1)

\* C17: after any sequence of text and binary uploads, clear-document,
\* previous-page and next-page operations, the page index of every session
\* lies within [0, pageCount - 1] of the document the session holds.
C17_PageIndexInRange ==
    \A i \in DOMAIN tabs : PageIndexInRange(tabs[i])

\* The page handlers are called at a boundary: previous at the first page,
\* next at the last page, with the document's page controls on screen.
PrevAtFirstPage ==
    /\ PagesShown /\ ~activeTab.isLoading /\ activeTab.currentPage = 0
    /\ PrevPageCall

NextAtLastPage ==
    /\ PagesShown /\ ~activeTab.isLoading
    /\ activeTab.currentPage = Len(activeTab.ebookPages) - 1
    /\ NextPageCall

\* C18: previous() at page 0 and next() at the last page are no-ops in every
\* language setting: the session records are left as they were and no
\* generation is started.
C18_BoundaryNoOp ==
    [][(PrevAtFirstPage \/ NextAtLastPage) => (tabs' = tabs /\ gens' = gens)]_vars

\* The section index the active session would have after a call of
\* handlePrevWebSection.
SectionAfterPrev == ActiveOf(handlePrevWebSection(World)).webSectionIndex

\* C19: the section index of a session is never negative: previous-section
\* at index 0 keeps 0 (and otherwise takes 1 off), next-section adds exactly
\* 1, and a topic change, back and forward set it to 0.
C19_SectionIndex ==
    /\ [](/\ \A i \in DOMAIN tabs : tabs[i].webSectionIndex >= 0
          /\ activeTab.webSectionIndex = 0 => SectionAfterPrev = 0
          /\ activeTab.webSectionIndex > 0 => SectionAfterPrev = activeTab.webSectionIndex - 1)
    /\ [][/\ PrevWebSection => activeTab'.webSectionIndex = SectionAfterPrev
          /\ NextWebSection => activeTab'.webSectionIndex = activeTab.webSectionIndex + 1
          /\ ((\E query \in {"Gravity", WebTopic} : Search(query)) \/ Back \/ Forward)
                => activeTab'.webSectionIndex = 0]_vars

\* The session went on to the second section of a web resource, whose text
\* is cached under section 1, and then back to the topic before it: the
\* resource is on the future stack and the section index is 0 again.
C19_Witness ==
    /\ activeTab.currentTopic = "Gravity"
    /\ activeTab.futureStack = <<WebTopic>>
    /\ activeTab.webSectionIndex = 0
    /\ \E k \in DOMAIN cache : k.section = 1 /\ k.topic = ToLower(WebTopic)

\* The step ends translation g, which was not superseded and delivered text.
TranslationCompleted(g) ==
    /\ GenTranslationEnd(g)
    /\ ~g.isCancelled
    /\ g.acc # <<>>

\* C20: a completed translation of a page is stored in the result cache
\* under a fingerprint that includes the language, so that a later visit of
\* the page in that language is served from the cache.
C20_TranslationCached ==
    [][\A g \in gens :
          TranslationCompleted(g) =>
              \E k \in DOMAIN cache' :
                  /\ k.language = g.language
                  /\ k.doc = g.documentName
                  /\ cache'[k].content = g.acc]_vars

\* The fields of a session that an upload does not use to report its failure.
KeptOnReject(t) == [f \in (DOMAIN t) \ {"error", "isLoading"} |-> t[f]]

\* C21: when the extraction of an uploaded file fails, the upload is
\* rejected: an error is shown, every other field of the session is what it
\* was and no generation is started on account of the upload.
C21_ExtractionFailureRejects ==
    [][\A u \in uploads :
          (UploadDone(u) /\ u.file = CorruptFile) =>
              /\ FindTab(tabs', u.tab).error # ""
              /\ KeptOnReject(FindTab(tabs', u.tab)) = KeptOnReject(FindTab(tabs, u.tab))
              /\ {g.id : g \in gens'} \subseteq {g.id : g \in gens}]_vars

\* What the normal completion of generation g with the text and the sources
\* given must leave behind: the entry under the fingerprint g started with,
\* and the session not loading, with the elapsed time and a title: the name
\* of its document or its topic.
CompletedWith(g, text, sources, genTime) ==
    /\ g.cacheKey \in DOMAIN cache'
    /\ cache'[g.cacheKey] = [ content |-> text, generationTime |-> <<genTime>>,
                              sources |-> sources, language |-> g.language ]
    /\ LET t == FindTab(tabs', g.tab)
       IN  /\ ~t.isLoading
           /\ t.generationTime = <<genTime>>
           /\ t.title \in {g.documentName, g.topic} \ {""}

\* C22: when a generation that was not superseded completes normally, the
\* entry {content, elapsed time, sources, language} is written under the
\* fingerprint computed at its start, with the concatenation of its text
\* deltas (or the one-shot text) as content; the session stops loading and
\* has its elapsed time and title set.
C22_NormalCompletion ==
    [][\A g \in gens, genTime \in ElapsedTimes :
          /\ (GenEnd(g, genTime) /\ ~g.isCancelled)
                => CompletedWith(g, g.acc, finalSourcesRef, genTime)
          /\ \A res \in SearchResults :
                (GenSearchResolved(g, res, genTime) /\ ~g.isCancelled)
                    => CompletedWith(g, res.content, res.sources, genTime)]_vars

\* A search resolved in one piece on the default tab: its text is shown and
\* cached under the web fingerprint, beside the entry of the definition that
\* streamed in before it.
C22_Witness ==
    /\ activeTab.isWebSearchMode /\ ~activeTab.isLoading
    /\ activeTab.content # <<>>
    /\ activeTab.generationTime # <<>>
    /\ CacheKey(activeTab) \in DOMAIN cache
    /\ cache[CacheKey(activeTab)].content = activeTab.content
    /\ \E k \in DOMAIN cache : k.mode = "wiki:" /\ cache[k].content # <<>>

\* The error outcome of generation g: its session shows an error and is not
\* loading, it shows no more text than before, and nothing of the normal
\* completion happened: no cache entry was written.
ErrorOutcome(g) ==
    LET t == FindTab(tabs', g.tab)
    IN  /\ t.error # ""
        /\ ~t.isLoading
        /\ t.content = FindTab(tabs, g.tab).content
        /\ cache' = cache

\* C23: a failure event of a streaming operation, generateTranslation
\* included, is terminal for a generation that was not superseded: no text
\* is applied after it and the generation ends in the error outcome, never
\* in the outcome of a normal completion.
C23_FailureIsTerminal ==
    [][\A g \in gens :
          (/\ ~g.isCancelled
           /\ \/ \E genTime \in ElapsedTimes : GenFail(g, genTime)
              \/ GenTranslationFail(g))
          => ErrorOutcome(g)]_vars

\* The world after one more chunk with markers has streamed into generation
\* g of world w and the render that follows.
AfterMoreContent(w, g, ev) == Render(w, FetchChunk(w, g, ev))

\* C24: when the image generation call for a prompt fails, the failure is
\* swallowed (no session field changes), the prompt stays unresolved, and
\* more content streaming into the session, with the same markers, issues no
\* second call for the prompt.
C24_NoRetryAfterFailure ==
    [][\A d \in diagrams :
          DiagramFailed(d) =>
              /\ tabs' = tabs
              /\ d.prompt \notin DOMAIN FindTab(tabs', d.tab).generatedDiagrams
              /\ \A g \in gens', ev \in DiagramEvents :
                    (/\ g.tab = d.tab /\ ~g.isCancelled /\ IsStream(g)
                     /\ Len(g.acc) < MaxMarkers
                     /\ d.prompt \in PromptsIn(FindTab(tabs', d.tab).content))
                    => \A e \in AfterMoreContent(World', g, ev).diagrams :
                           ~(e.prompt = d.prompt /\ e.tab = d.tab)]_vars

\* C25: a session that reads a paginated text document in a language other
\* than the base language and is not loading does not display the
\* untranslated text of its current page: what it displays came from a
\* translation of the page.
C25_TranslatedPageShown ==
    \A i \in DOMAIN tabs :
        (/\ IsLocalTextMode(tabs[i])
         /\ tabs[i].language # BaseLanguage
         /\ ~tabs[i].isLoading)
        => tabs[i].content # PageContent(tabs[i])

\* The step leaves the record of every session not in ids as it was.
OnlyTouches(ids) ==
    \A b \in StayingTabs \ ids : FindTab(tabs', b) = FindTab(tabs, b)

\* The step is a user intent: it delivers nothing to a generation and
\* settles no upload and no image generation.
IsIntent ==
    /\ \A g \in gens : ~Delivered(g)
    /\ uploads \subseteq uploads'
    /\ diagrams \subseteq diagrams'

\* C26: an update meant for one session is never applied to another: a
\* stream event or completion, a settled upload and a diagram result change
\* only the session that was active when the work was started, and a user
\* intent changes only the session that is active when it is made (and, by
\* the fetch logic run for it, the session the intent brings to the front),
\* whatever tabs were switched to, opened or closed in between.
C26_UpdatesStayInSession ==
    [][/\ \A g \in gens : Delivered(g) => OnlyTouches({g.tab})
       /\ \A u \in uploads : UploadDone(u) => OnlyTouches({u.tab})
       /\ \A d \in diagrams : d \notin diagrams' => OnlyTouches({d.tab})
       /\ IsIntent => OnlyTouches({activeTabId, activeTabId'})]_vars

\* The first tab is in the background: a diagram of its definition resolved
\* into it while a new tab without topic is in front, and the upload started
\* in it is still being read.
C26_Witness ==
    /\ Len(tabs) = 2
    /\ activeTabId = tabs[2].id
    /\ tabs[2].currentTopic = "" /\ tabs[2].generatedDiagrams = <<>>
    /\ "cell" \in DOMAIN tabs[1].generatedDiagrams
    /\ \E u \in uploads : u.tab = tabs[1].id

\* The step writes the entry of fingerprint key and leaves every other entry
\* of the cache as it was.
WritesOnly(key) ==
    /\ DOMAIN cache' = DOMAIN cache \cup {key}
    /\ \A k \in DOMAIN cache \ {key} : cache'[k] = cache[k]

C28_AppendOnly ==
    /\ [](\A g \in gens : (g.kind = "fetch" /\ ~g.isCancelled /\ g.acc # <<>>) =>
              FindTab(tabs, g.tab).content = g.acc)
    /\ [][\A g \in gens, ev \in DeltaEvents :
              (GenDelta(g, ev) /\ ~g.isCancelled) =>
                  /\ FindTab(tabs', g.tab).content = g.acc \o <<ev.text>>
                  /\ GenById(gens', g.id).acc = g.acc \o <<ev.text>>]_vars

\* The session went back in its history with a text of two deltas in the
\* cache; the generation started by the way back has delivered the two
\* deltas in the other order, and they are what the session displays.
C28_Witness ==
    \E g \in gens :
        /\ ~g.isCancelled /\ g.acc = <<"beta", "alpha">>
        /\ activeTab.content = g.acc
        /\ activeTab.futureStack # <<>>
        /\ \E k \in DOMAIN cache : cache[k].content = <<"alpha", "beta">>

\* The cache check of the fetch logic applies to session t: it is reached
\* (t has a topic and is not reading a paginated text document) and finds an
\* entry for t, which is not loading and displays nothing.
HydrationApplies(t) ==
    /\ t.currentTopic # "" /\ ~IsLocalTextMode(t)
    /\ CacheKey(t) \in DOMAIN cache
    /\ ~t.isLoading /\ t.content = <<>>

\* C29: when the fetch logic runs for a session that is not loading and no
\* cache hydration applies, it does nothing: no generation is started and no
\* session field and no cache entry changes; so a generation is only ever
\* started for a session that is loading.
C29_IdleWhenNotLoading ==
    /\ []((~activeTab.isLoading /\ ~HydrationApplies(activeTab)) =>
            LET w == MainEffect(World)
            IN  w.tabs = tabs /\ w.cache = cache /\ w.gens = gens)
    /\ [][\A id \in GenIds : Started(id) =>
            FindTab(tabs', GenById(gens', id).tab).isLoading]_vars

\* A searched topic has been generated and cached: the fetch logic ran when
\* the loading flag was cleared, for a session that displays text, and no
\* generation is in flight.
C29_Witness ==
    /\ searchHistory # <<>>
    /\ ~activeTab.isLoading /\ activeTab.error = ""
    /\ activeTab.content # <<>> /\ ~IsLocalTextMode(activeTab)
    /\ CacheKey(activeTab) \in DOMAIN cache
    /\ \A g \in gens : g.isCancelled

\* A call is outstanding whose end clears the loading flag of session id: a
\* generation or a translation of the session that is not superseded, or a
\* file being read for it.
EndsLoading(id) ==
    \/ \E g \in gens : g.tab = id /\ ~g.isCancelled
    \/ \E u \in uploads : u.tab = id

\* C30: loading always ends: the active session is only ever loading while
\* a call is outstanding whose termination clears its loading flag; the
\* controls that could start one are disabled while the session is loading.
C30_LoadingEnds ==
    activeTab.isLoading => EndsLoading(activeTabId)


\* C31: after a generation that was not superseded fails, the error of its
\* session stays set until the next user intent on the session: the step of
\* the failure, with the re-run of the fetch logic that the cleared loading
\* flag causes, leaves the error set, whether or not text had been streamed,
\* and no step other than a user intent clears it.
C31_ErrorStaysUntilIntent ==
    [][/\ \A g \in gens :
             (~g.isCancelled /\ \E genTime \in ElapsedTimes : GenFail(g, genTime)) =>
                 FindTab(tabs', g.tab).error = ServiceError
       /\ \A id \in StayingTabs :
             (FindTab(tabs, id).error = ServiceError /\ ~IsIntent) =>
                 FindTab(tabs', id).error = ServiceError]_vars


\* C32: starting a file upload issues no call to the generation service for
\* the topic the session was showing: while a file is being read for a
\* session, from the step that marks it loading to the step that settles
\* the upload, no generation is started for that session.
C32_UploadStartsNoGeneration ==
    [][\A id \in GenIds :
          Started(id) =>
              \A u \in uploads' : u.tab # GenById(gens', id).tab]_vars


\* The document a session has attached: its extracted text and its binary
\* attachment.
Attached(t) == <<t.documentContext, t.fileData>>

\* C33: two requests whose attached documents differ, in one session or in
\* two, with the same file name or not, never resolve to the same cache
\* entry: two sessions that hold different documents have different
\* fingerprints, and a session that holds a binary document and is not
\* loading displays nothing but text generated from that document.
C33_DocumentsNeverShareEntry ==
    /\ \A i \in DOMAIN tabs, j \in DOMAIN tabs :
          (/\ tabs[i].documentName # "" /\ tabs[j].documentName # ""
           /\ Attached(tabs[i]) # Attached(tabs[j]))
          => CacheKey(tabs[i]) # CacheKey(tabs[j])
    /\ \A i \in DOMAIN tabs :
          (tabs[i].fileData # <<>> /\ ~tabs[i].isLoading /\ tabs[i].content # <<>>)
          => tabs[i].content = <<Transcript(tabs[i])>>


\* The ids of the sessions of a store, in the order of the tab bar.
IdsOf(ts) == [i \in 1..Len(ts) |-> ts[i].id]

C35_SourcesMatchCache ==
    [][\A g \in gens, genTime \in ElapsedTimes :
          (GenEnd(g, genTime) /\ ~g.isCancelled /\ ~FindTab(tabs', g.tab).isLoading) =>
              FindTab(tabs', g.tab).groundingSources = cache'[g.cacheKey].sources]_vars


\* C36: an image that resolves after the topic, the section or the mode of
\* its session has changed is not merged into the diagram map of the
\* session: at every moment the keys of the map are prompts of markers in
\* the content of the topic and section the session shows.
C36_DiagramKeysOfCurrentContent ==
    \A i \in DOMAIN tabs :
        DOMAIN tabs[i].generatedDiagrams \subseteq PromptsIn(tabs[i].content)


\* The step selects a topic in the active tab: the topic it leaves goes on
\* the history stack of the tab.
TopicSelected == Len(activeTab'.historyStack) > Len(activeTab.historyStack)

\* C37: the search history holds at most 5 topics and no two topics that
\* are equal ignoring case; a topic selection puts the topic selected
\* first and keeps the others in their order, no other step changes the
\* history, and selecting an empty topic changes nothing.
C37_SearchHistory ==
    /\ [](/\ Len(searchHistory) <= 5
          /\ \A i \in DOMAIN searchHistory, j \in DOMAIN searchHistory :
                i # j => ToLower(searchHistory[i]) # ToLower(searchHistory[j])
          /\ handleTopicChange(World, "") = World
          /\ handleSearch(World, "  ") = World)
    /\ [][IF TopicSelected
          THEN /\ searchHistory'[1] = activeTab'.currentTopic
               /\ \A i \in DOMAIN searchHistory', j \in DOMAIN searchHistory' :
                     (1 < i /\ i < j) =>
                         \E k \in DOMAIN searchHistory, l \in DOMAIN searchHistory :
                             /\ k < l
                             /\ searchHistory[k] = searchHistory'[i]
                             /\ searchHistory[l] = searchHistory'[j]
               /\ \A k \in DOMAIN searchHistory :
                     (k < 5 /\ ToLower(searchHistory[k]) # ToLower(searchHistory'[1])) =>
                         \E i \in DOMAIN searchHistory' : searchHistory'[i] = searchHistory[k]
          ELSE searchHistory' = searchHistory]_vars

\* The history is full and starts with gravity, searched last; the topic
\* under it on the history stack of the tab, searched five selections of
\* other topics ago, is no longer in the search history.
C37_Witness ==
    /\ Len(searchHistory) = 5
    /\ searchHistory[1] = "gravity" /\ activeTab.currentTopic = "gravity"
    /\ \E i \in DOMAIN activeTab.historyStack :
          /\ activeTab.historyStack[i] # DefaultTopic
          /\ \A j \in DOMAIN searchHistory :
                ToLower(searchHistory[j]) # ToLower(activeTab.historyStack[i])

=============================================================================
